---------------------------- MODULE Spec2Model ----------------------------
(***************************************************************************)
(* Ktute: model of the layout parsers of src/keyboard/layout-parser.js.    *)
(*                                                                         *)
(* Text is a sequence of one-character strings.  Real-valued widths and    *)
(* column positions are fixed-point numbers counted in hundredths of a key *)
(* unit (1.5 is 150); the inputs used below have at most two fraction      *)
(* digits, so no precision is lost.  A JavaScript number that may be NaN   *)
(* or null is a record [t, v] with t in {"num", "nan", "null"}.            *)
(***************************************************************************)
EXTENDS Integers, Sequences, FiniteSets, TLC

VARIABLES
    text,  \* the layout definition text given to the parsers
    combined,  \* parseCombinedLayout(text): [physical, mapping]
    keymap,  \* parseKeyMapping(text): the mapping object
    calls,  \* the parseCombinedLayout calls made so far: [input, ref]
    heap,  \* the result objects the calls returned, by reference
    bindingList,  \* the text between < and > of a ZMK bindings property
    bindings,  \* parseBindings(bindingList): [keys, thrown]
    fragments,  \* the fragments a ZMK keymap file is made of
    zmkText,  \* the text of the ZMK keymap file
    zmk,  \* parseZmkKeymap(zmkText): [layers, thrown]
    customLayouts,  \* storage['custom-layouts']: layout id -> [name, definition]
    lastId,  \* the id generateLayoutId returned last
    engine,  \* the typing engine's state object
    activeSession,  \* the session manager's active session
    sessions,  \* the session manager's history
    stored,  \* storage['sessions']
    nextId,  \* the ids generateId has handed out
    storeState,  \* the reactive store: key -> value
    subscribers,  \* the reactive store: key -> callbacks, in insertion order
    wildcardSubscribers,  \* the reactive store: wildcard callbacks, in insertion order
    delivered,  \* the callback invocations of the last set call, in order
    contextStack,  \* the keyboard handler: the pushed contexts
    pushed,  \* the number of contexts pushed so far
    listening,  \* the keyboard handler's keydown listener is attached
    invoked,  \* the handlers the last keydown event invoked
    menu,  \* the command menu: [isOpen, query, selectedIndex, filteredCommands]
    ran,  \* the command ids whose action the last selectCurrent ran
    hash,  \* window.location.hash without its #
    currentRoute,  \* the router's currentRoute
    hashEvents,  \* the hashchange events dispatched and not yet handled
    handlerActive,  \* the global keyboard handler's keydown listener is attached
    practiceViews,  \* the practice views created so far: [listening]
    runs,  \* the route handlers run since the last navigate call
    navigations,  \* the number of navigations made so far
    view,  \* one practice view: its listener, its engine and its statistics
    zmkKeys,  \* the label sequence of an imported ZMK layer
    importedText,  \* generateLayoutFromKeys(zmkKeys)
    imported   \* parseCombinedLayout(importedText)

layoutVars == <<text, combined, keymap>>
callVars == <<calls, heap>>
bindingVars == <<bindingList, bindings>>
zmkVars == <<fragments, zmkText, zmk>>
storeVars == <<customLayouts, lastId>>
engineVars == <<engine>>
sessionVars == <<activeSession, sessions, stored, nextId>>
stateVars == <<storeState, subscribers, wildcardSubscribers, delivered>>
keyVars == <<contextStack, pushed, listening, invoked>>
menuVars == <<menu, ran>>
appVars == <<hash, currentRoute, hashEvents, handlerActive, practiceViews, runs,
            navigations>>
practiceVars == <<view>>
importVars == <<zmkKeys, importedText, imported>>

vars ==
    <<layoutVars,
      callVars,
      bindingVars,
      zmkVars,
      storeVars,
      engineVars,
      sessionVars,
      stateVars,
      keyVars,
      menuVars,
      appVars,
      practiceVars,
      importVars>>

exceptLayout ==
    <<callVars, bindingVars, zmkVars, storeVars, engineVars, sessionVars,
      stateVars, keyVars, menuVars, appVars, practiceVars, importVars>>
exceptCalls ==
    <<layoutVars, bindingVars, zmkVars, storeVars, engineVars, sessionVars,
      stateVars, keyVars, menuVars, appVars, practiceVars, importVars>>
exceptBindings ==
    <<layoutVars, callVars, zmkVars, storeVars, engineVars, sessionVars,
      stateVars, keyVars, menuVars, appVars, practiceVars, importVars>>
exceptZmk ==
    <<layoutVars, callVars, bindingVars, storeVars, engineVars, sessionVars,
      stateVars, keyVars, menuVars, appVars, practiceVars, importVars>>
exceptStore ==
    <<layoutVars, callVars, bindingVars, zmkVars, engineVars, sessionVars,
      stateVars, keyVars, menuVars, appVars, practiceVars, importVars>>
exceptEngine ==
    <<layoutVars, callVars, bindingVars, zmkVars, storeVars, sessionVars,
      stateVars, keyVars, menuVars, appVars, practiceVars, importVars>>
exceptSessions ==
    <<layoutVars, callVars, bindingVars, zmkVars, storeVars, engineVars,
      stateVars, keyVars, menuVars, appVars, practiceVars, importVars>>
exceptState ==
    <<layoutVars, callVars, bindingVars, zmkVars, storeVars, engineVars,
      sessionVars, keyVars, menuVars, appVars, practiceVars, importVars>>
exceptKeys ==
    <<layoutVars, callVars, bindingVars, zmkVars, storeVars, engineVars,
      sessionVars, stateVars, menuVars, appVars, practiceVars, importVars>>
exceptMenu ==
    <<layoutVars, callVars, bindingVars, zmkVars, storeVars, engineVars,
      sessionVars, stateVars, keyVars, appVars, practiceVars, importVars>>
exceptApp ==
    <<layoutVars, callVars, bindingVars, zmkVars, storeVars, engineVars,
      sessionVars, stateVars, keyVars, menuVars, practiceVars, importVars>>
exceptPractice ==
    <<layoutVars, callVars, bindingVars, zmkVars, storeVars, engineVars,
      sessionVars, stateVars, keyVars, menuVars, appVars, importVars>>
exceptImport ==
    <<layoutVars, callVars, bindingVars, zmkVars, storeVars, engineVars,
      sessionVars, stateVars, keyVars, menuVars, appVars, practiceVars>>

---------------------------------------------------------------------------
(* Characters and JavaScript string built-ins used by the parsers *)

Unit == 10 * 10

\* v is evaluated once and Body is applied to its value.
Let(v, Body(_)) == CHOOSE r \in {Body(x) : x \in {v}} : TRUE

BrokenBar == "¦"

Digits == {"0", "1", "2", "3", "4", "5", "6", "7", "8", "9"}

LowerSeq == <<"a", "b", "c", "d", "e", "f", "g", "h", "i", "j", "k", "l", "m",
              "n", "o", "p", "q", "r", "s", "t", "u", "v", "w", "x", "y", "z">>

UpperSeq == <<"A", "B", "C", "D", "E", "F", "G", "H", "I", "J", "K", "L", "M",
              "N", "O", "P", "Q", "R", "S", "T", "U", "V", "W", "X", "Y", "Z">>

Range(s) == {s[i] : i \in 1..Len(s)}

IsDigit(c) == c \in Digits

Letters == Range(LowerSeq) \cup Range(UpperSeq)

IsAlpha(c) == c \in Letters

\* \w
IsWord(c) == IsAlpha(c) \/ IsDigit(c) \/ c = "_"

\* [\w-]
IsWordOrDash(c) == IsWord(c) \/ c = "-"

\* \s
IsSpace(c) == c \in {" ", "\t", "\n", "\r"}

DigitVal(c) == CHOOSE n \in 0..9 : <<"0", "1", "2", "3", "4", "5", "6", "7", "8", "9">>[n + 1] = c

NumV(n) == [t |-> "num", v |-> n]
NaNV == [t |-> "nan", v |-> 0]
NullV == [t |-> "null", v |-> 0]

ToLowerChar(c) ==
    IF c \in Range(UpperSeq)
    THEN LowerSeq[CHOOSE i \in 1..Len(UpperSeq) : UpperSeq[i] = c]
    ELSE c

ToLowerCase(s) == [i \in 1..Len(s) |-> ToLowerChar(s[i])]

RECURSIVE FirstNonSpace(_, _)
FirstNonSpace(s, i) ==
    IF i > Len(s) THEN i
    ELSE IF IsSpace(s[i]) THEN FirstNonSpace(s, i + 1) ELSE i

RECURSIVE LastNonSpace(_, _)
LastNonSpace(s, i) ==
    IF i < 1 THEN 0
    ELSE IF IsSpace(s[i]) THEN LastNonSpace(s, i - 1) ELSE i

\* String.prototype.trim
Trim(str) ==
    Let(str, LAMBDA s :
        Let(<<FirstNonSpace(s, 1), LastNonSpace(s, Len(s))>>, LAMBDA ab :
            IF ab[1] > ab[2] THEN <<>> ELSE SubSeq(s, ab[1], ab[2])))

RECURSIVE NextSep(_, _, _)
\* index of the first sep at or after i, Len(s) + 1 if there is none
NextSep(s, sep, i) ==
    IF i > Len(s) THEN i ELSE IF s[i] = sep THEN i ELSE NextSep(s, sep, i + 1)

RECURSIVE SplitFrom(_, _, _)
SplitFrom(s, sep, from) ==
    Let(NextSep(s, sep, from), LAMBDA j :
        IF j > Len(s) THEN <<SubSeq(s, from, Len(s))>>
        ELSE <<SubSeq(s, from, j - 1)>> \o SplitFrom(s, sep, j + 1))

\* String.prototype.split on a one-character separator (empty pieces are kept)
Split(str, sep) == Let(str, LAMBDA s : SplitFrom(s, sep, 1))

RECURSIVE NextSpace(_, _)
\* index of the first blank at or after i, Len(s) + 1 if there is none
NextSpace(s, i) ==
    IF i > Len(s) THEN i ELSE IF IsSpace(s[i]) THEN i ELSE NextSpace(s, i + 1)

RECURSIVE SplitWsFrom(_, _)
SplitWsFrom(s, from) ==
    Let(NextSpace(s, from), LAMBDA j :
        IF j > Len(s) THEN <<SubSeq(s, from, Len(s))>>
        ELSE Let(FirstNonSpace(s, j), LAMBDA n :
                 <<SubSeq(s, from, j - 1)>> \o SplitWsFrom(s, n)))

\* String.prototype.split(/\s+/)
SplitWs(str) == Let(str, LAMBDA s : SplitWsFrom(s, 1))

NonEmpty(x) == x # <<>>

StartsWith(s, p) == Len(s) >= Len(p) /\ SubSeq(s, 1, Len(p)) = p

Includes(s, c) == \E i \in 1..Len(s) : s[i] = c

RECURSIVE DigitsEnd(_, _)
\* index just after the run of digits that starts at i
DigitsEnd(s, i) ==
    IF i <= Len(s) /\ IsDigit(s[i]) THEN DigitsEnd(s, i + 1) ELSE i

RECURSIVE DigitsValue(_, _, _)
\* value of the decimal digits s[i..j-1]
DigitsValue(s, i, j) ==
    IF i >= j THEN 0 ELSE DigitsValue(s, i, j - 1) * 10 + DigitVal(s[j - 1])

\* parseInt(s, 10): leading blanks, optional sign, leading digits; NaN if none
ParseInt(str) ==
    Let(str, LAMBDA s :
    Let(FirstNonSpace(s, 1), LAMBDA a :
    Let(IF a <= Len(s) /\ s[a] \in {"-", "+"} THEN a + 1 ELSE a, LAMBDA b :
    Let(DigitsEnd(s, b), LAMBDA e :
        IF e = b THEN NaNV
        ELSE NumV((IF s[a] = "-" THEN -1 ELSE 1) * DigitsValue(s, b, e))))))

\* hundredths denoted by the fraction digits s[i..j-1] (digits past the second dropped)
FractionValue(s, i, j) ==
    (IF i < j THEN DigitVal(s[i]) * 10 ELSE 0) + (IF i + 1 < j THEN DigitVal(s[i + 1]) ELSE 0)

\* parseFloat(s): longest prefix  [sign] digits [. digits] | [sign] . digits ;
\* NaN if it holds no digit.  The value is in hundredths.  (Exponents are not
\* modelled: every caller also requires the text to match /^[\d.]+$/ or \d+\.?\d*.)
ParseFloat(str) ==
    Let(str, LAMBDA s :
    Let(FirstNonSpace(s, 1), LAMBDA a :
    Let(IF a <= Len(s) /\ s[a] \in {"-", "+"} THEN a + 1 ELSE a, LAMBDA b :
    Let(DigitsEnd(s, b), LAMBDA e :
    Let(e <= Len(s) /\ s[e] = ".", LAMBDA hasDot :
    Let(IF hasDot THEN DigitsEnd(s, e + 1) ELSE e, LAMBDA f :
        IF e = b /\ (~hasDot \/ f = e + 1) THEN NaNV
        ELSE NumV((IF s[a] = "-" THEN -1 ELSE 1)
                  * (DigitsValue(s, b, e) * Unit
                     + (IF hasDot THEN FractionValue(s, e + 1, f) ELSE 0)))))))))

---------------------------------------------------------------------------
(* Literal strings of the parsers *)

LayoutTag == <<"[", "l", "a", "y", "o", "u", "t", ":">>
PhysicalTag == <<"[", "p", "h", "y", "s", "i", "c", "a", "l", ":">>
MappingTag == <<"[", "m", "a", "p", "p", "i", "n", "g", ":">>
LayerTag == <<"[", "l", "a", "y", "e", "r", ":">>
KwFingers == <<"f", "i", "n", "g", "e", "r", "s", ":">>
KwRows == <<"r", "o", "w", "s">>
KwColumns == <<"c", "o", "l", "u", "m", "n", "s">>
KwSplit == <<"s", "p", "l", "i", "t">>
KwStagger == <<"s", "t", "a", "g", "g", "e", "r">>
KwBase == <<"b", "a", "s", "e">>
KwThumb == <<"t", "h", "u", "m", "b">>
KwRow == <<"r", "o", "w">>
KwTrue == <<"t", "r", "u", "e">>
KwNone == <<"n", "o", "n", "e">>

---------------------------------------------------------------------------
(* Line classification shared by the parsers *)

\* input.trim().split('\n').map(l => l.trim()).filter(l => l && !l.startsWith('#'))
Lines(input) ==
    Let(Split(Trim(input), "\n"), LAMBDA raw :
        SelectSeq([i \in 1..Len(raw) |-> Trim(raw[i])], LAMBDA l : l # <<>> /\ l[1] # "#"))

\* the text between "[tag:" and "]"
HeaderName(line, tag) == SubSeq(line, Len(tag) + 1, Len(line) - 1)

\* line.match(/^\[tag:(C+)\]$/) for a character class C
HeaderMatch(line, tag, InClass(_)) ==
    /\ StartsWith(line, tag)
    /\ Len(line) >= Len(tag) + 2
    /\ line[Len(line)] = "]"
    /\ \A i \in (Len(tag) + 1)..(Len(line) - 1) : InClass(line[i])

\* line.match(/^(\w+):\s*(.+)$/): [ok, key, value]
RECURSIVE WordEnd(_, _)
\* index just after the run of \w characters that starts at i
WordEnd(s, i) ==
    IF i <= Len(s) /\ IsWord(s[i]) THEN WordEnd(s, i + 1) ELSE i

KvMatch(line) ==
    Let(WordEnd(line, 1), LAMBDA k :
    Let(FirstNonSpace(line, k + 1), LAMBDA v :
        IF k > 1 /\ k <= Len(line) /\ line[k] = ":" /\ v <= Len(line)
        THEN [ok |-> TRUE, key |-> SubSeq(line, 1, k - 1), value |-> SubSeq(line, v, Len(line))]
        ELSE [ok |-> FALSE, key |-> <<>>, value |-> <<>>]))

\* value.split(',').map(v => parseInt(v.trim(), 10))
IntList(value) ==
    Let(Split(value, ","), LAMBDA p : Let([i \in 1..Len(p) |-> ParseInt(Trim(p[i]))], LAMBDA r : r))

\* value.split('|').map(s => s.trim())
HandParts(value) ==
    Let(Split(value, "|"), LAMBDA p : Let([i \in 1..Len(p) |-> Trim(p[i])], LAMBDA r : r))

RECURSIVE FlatMapWs(_, _, _)
\* parts.flatMap(part => part.split(/\s+/)) with or without .filter(v => v !== '')
FlatMapWs(parts, i, filtered) ==
    IF i > Len(parts) THEN <<>>
    ELSE Let(parts, LAMBDA p :
             (IF filtered THEN SelectSeq(SplitWs(p[i]), NonEmpty) ELSE SplitWs(p[i]))
             \o FlatMapWs(p, i + 1, filtered))

\* v === '.' ? null : parseInt(v, 10)
FingerValue(v) == IF v = <<".">> THEN NullV ELSE ParseInt(v)

---------------------------------------------------------------------------
(* parseKeyToken *)

NoLabel == <<>>
Label(s) == <<s>>

\* w matches \d+\.?\d*
WidthText(w) ==
    Let(DigitsEnd(w, 1), LAMBDA e :
        /\ e > 1
        /\ \/ e = Len(w) + 1
           \/ w[e] = "." /\ DigitsEnd(w, e + 1) = Len(w) + 1)

\* token.match(/^([^:]+):(\d+\.?\d*)$/): position of the colon, 0 if no match
ColonMatch(token) ==
    Let(NextSep(token, ":", 1), LAMBDA k :
        IF k > 1 /\ k <= Len(token)
           /\ Let(SubSeq(token, k + 1, Len(token)), LAMBDA w : WidthText(w))
        THEN k ELSE 0)

DefaultGapWidth == 25

\* !isNaN(parseFloat(token)) && token.match(/^[\d.]+$/)
IsNumeric(token) ==
    /\ ParseFloat(token).t = "num"
    /\ token # <<>>
    /\ \A i \in 1..Len(token) : IsDigit(token[i]) \/ token[i] = "."

\* Variant of NumericToken in which "0" stays a gap in the combined format
\* (the reading of the doc comment above parseKeyToken).
NumericTokenZeroGap(token, isCombinedFormat) ==
    IF token = <<"0">>
    THEN [label |-> NoLabel, width |-> 0, isPhysicalOnly |-> TRUE]
    ELSE IF isCombinedFormat
    THEN [label |-> Label(token), width |-> Unit, isPhysicalOnly |-> FALSE]
    ELSE [label |-> NoLabel, width |-> ParseFloat(token).v, isPhysicalOnly |-> TRUE]

\* The branch for a purely numeric token.
NumericToken(token, isCombinedFormat) ==
    IF isCombinedFormat
    THEN [label |-> Label(token), width |-> Unit, isPhysicalOnly |-> FALSE]
    ELSE IF token = <<"0">>
         THEN [label |-> NoLabel, width |-> 0, isPhysicalOnly |-> TRUE]
         ELSE [label |-> NoLabel, width |-> ParseFloat(token).v, isPhysicalOnly |-> TRUE]

parseKeyToken(token, isCombinedFormat) ==
    Let(ColonMatch(token), LAMBDA k :
        IF k > 0
        THEN [label |-> Label(SubSeq(token, 1, k - 1)),
              width |-> ParseFloat(SubSeq(token, k + 1, Len(token))).v,
              isPhysicalOnly |-> FALSE]
        ELSE IF token = <<BrokenBar>>
        THEN [label |-> NoLabel, width |-> DefaultGapWidth, isPhysicalOnly |-> TRUE]
        ELSE IF IsNumeric(token)
        THEN NumericToken(token, isCombinedFormat)
        ELSE [label |-> Label(token), width |-> Unit, isPhysicalOnly |-> FALSE])

---------------------------------------------------------------------------
(* parseCombinedLayout *)

NoFingers == <<>>

KeySlot(row, col, width, hand, isThumb) ==
    [row |-> row, col |-> col, width |-> width, hand |-> hand, isThumb |-> isThumb]

\* parsed.label === null && parsed.width > 0 && parsed.width < 1
IsGap(parsed) == parsed.label = NoLabel /\ parsed.width > 0 /\ parsed.width < Unit

\* Gap: the cursor advances by the gap width, nothing is pushed.
GapStep(parsed, colPos) ==
    [keys |-> <<>>, labels |-> <<>>, colPos |-> colPos + parsed.width]

\* Physical-only format: 0 = gap, number = key width.
PhysicalOnlyStep(parsed, colPos, row, hand, isThumb) ==
    [keys |-> IF parsed.width > 0
              THEN <<KeySlot(row, colPos, parsed.width, hand, isThumb)>>
              ELSE <<>>,
     labels |-> <<>>,
     colPos |-> colPos + (IF parsed.width > 0 THEN parsed.width ELSE Unit)]

\* Variant of LabeledKeyStep that pushes the slot without its label.
LabeledKeyStepNoLabel(parsed, colPos, row, hand, isThumb) ==
    [keys |-> <<KeySlot(row, colPos, parsed.width, hand, isThumb)>>,
     labels |-> <<>>,
     colPos |-> colPos + parsed.width]

\* Variant of LabeledKeyStep that leaves the column cursor where it was.
LabeledKeyStepNoAdvance(parsed, colPos, row, hand, isThumb) ==
    [keys |-> <<KeySlot(row, colPos, parsed.width, hand, isThumb)>>,
     labels |-> <<parsed.label[1]>>,
     colPos |-> colPos]

\* Combined format: a key slot and its label are pushed together.
LabeledKeyStep(parsed, colPos, row, hand, isThumb) ==
    [keys |-> <<KeySlot(row, colPos, parsed.width, hand, isThumb)>>,
     labels |-> <<parsed.label[1]>>,
     colPos |-> colPos + parsed.width]

\* One call of the forEach callback on a row token: what it pushes and where
\* it leaves the column cursor.
KeyStep(k, colPos, row, hand, isThumb, isCombinedFormat) ==
    Let(parseKeyToken(k, isCombinedFormat), LAMBDA parsed :
        IF IsGap(parsed) THEN GapStep(parsed, colPos)
        ELSE IF parsed.isPhysicalOnly THEN PhysicalOnlyStep(parsed, colPos, row, hand, isThumb)
        ELSE LabeledKeyStep(parsed, colPos, row, hand, isThumb))

RECURSIVE HandKeys(_, _, _, _, _, _, _)
\* The forEach loop over one hand's tokens from token i on, the cursor at colPos.
HandKeys(toks, i, colPos, row, hand, isThumb, isCombinedFormat) ==
    IF i > Len(toks) THEN [keys |-> <<>>, labels |-> <<>>]
    ELSE Let(KeyStep(toks[i], colPos, row, hand, isThumb, isCombinedFormat), LAMBDA step :
         Let(HandKeys(toks, i + 1, step.colPos, row, hand, isThumb, isCombinedFormat), LAMBDA rest :
             [keys |-> step.keys \o rest.keys, labels |-> step.labels \o rest.labels]))

\* key.startsWith('row') || key === 'thumb'
IsRowKey(key) == StartsWith(key, KwRow) \/ key = KwThumb

\* isThumb ? -1 : parseInt(key.slice(3), 10)
RowIndexOf(key) ==
    IF key = KwThumb THEN NumV(-1) ELSE ParseInt(SubSeq(key, 4, Len(key)))

\* leftPart.split(/\s+/).filter(k => k !== '')
HandTokens(part) == Let(SelectSeq(SplitWs(part), NonEmpty), LAMBDA r : r)

\* The keys and labels one row line adds: left hand, then right hand (parts[1] || null).
RowKeys(key, value, isCombinedFormat) ==
    Let(HandParts(value), LAMBDA parts :
    Let(RowIndexOf(key), LAMBDA row :
    Let(HandKeys(HandTokens(parts[1]), 1, 0, row, "left", key = KwThumb, isCombinedFormat),
        LAMBDA left :
    Let(IF Len(parts) >= 2 /\ parts[2] # <<>>
        THEN HandKeys(HandTokens(parts[2]), 1, 0, row, "right", key = KwThumb, isCombinedFormat)
        ELSE [keys |-> <<>>, labels |-> <<>>],
        LAMBDA right :
        [keys |-> left.keys \o right.keys, labels |-> left.labels \o right.labels]))))

\* value.includes(',') && !value.includes('|') && !value.match(/[a-zA-Z]/)
IsThumbCount(value) ==
    /\ Includes(value, ",")
    /\ ~Includes(value, "|")
    /\ \A i \in 1..Len(value) : ~IsAlpha(value[i])

\* The locals of parseCombinedLayout before its loop.
CombinedStart ==
    [physical |-> [name |-> <<>>, rows |-> NumV(0), columns |-> <<>>, thumb |-> <<>>,
                   split |-> FALSE, stagger |-> KwNone, keys |-> <<>>],
     mapping |-> [name |-> <<>>, base |-> <<>>, layers |-> <<[keys |-> <<>>]>>,
                  fingers |-> NoFingers],
     parsingFingers |-> FALSE,
     fingerValues |-> <<>>,
     isCombinedFormat |-> FALSE]

\* The row branch of the switch (default case).
CombinedRow(st, key, value) ==
    IF ~IsRowKey(key) THEN st
    ELSE IF st.parsingFingers
    THEN Let(FlatMapWs(HandParts(value), 1, TRUE), LAMBDA allValues :
             [st EXCEPT !.fingerValues =
                  @ \o [i \in 1..Len(allValues) |-> FingerValue(allValues[i])]])
    ELSE Let(RowKeys(key, value, st.isCombinedFormat), LAMBDA r :
             [st EXCEPT !.physical.keys = @ \o r.keys,
                        !.mapping.layers[1].keys = @ \o r.labels])

\* One iteration of the loop over the lines.
CombinedLine(st, line) ==
    IF HeaderMatch(line, LayoutTag, IsWordOrDash)
    THEN LET n == HeaderName(line, LayoutTag)
         IN  [st EXCEPT !.physical.name = n, !.mapping.name = n, !.mapping.base = n,
                        !.isCombinedFormat = TRUE]
    ELSE IF HeaderMatch(line, PhysicalTag, IsWord)
    THEN [st EXCEPT !.physical.name = HeaderName(line, PhysicalTag)]
    ELSE IF HeaderMatch(line, MappingTag, IsWordOrDash)
    THEN [st EXCEPT !.mapping.name = HeaderName(line, MappingTag)]
    ELSE IF line = KwFingers
    THEN [st EXCEPT !.parsingFingers = TRUE, !.fingerValues = <<>>]
    ELSE Let(KvMatch(line), LAMBDA kv :
             IF ~kv.ok THEN st
             ELSE IF kv.key = KwRows THEN [st EXCEPT !.physical.rows = ParseInt(kv.value)]
             ELSE IF kv.key = KwColumns THEN [st EXCEPT !.physical.columns = IntList(kv.value)]
             ELSE IF kv.key = KwSplit
                  THEN [st EXCEPT !.physical.split = (ToLowerCase(kv.value) = KwTrue)]
             ELSE IF kv.key = KwStagger THEN [st EXCEPT !.physical.stagger = kv.value]
             ELSE IF kv.key = KwBase THEN [st EXCEPT !.mapping.base = kv.value]
             ELSE IF kv.key = KwThumb /\ IsThumbCount(kv.value)
                  THEN [st EXCEPT !.physical.thumb = IntList(kv.value)]
             ELSE CombinedRow(st, kv.key, kv.value))

RECURSIVE CombinedLoop(_, _, _)
\* for (const line of lines) from line i on
CombinedLoop(st, lines, i) ==
    IF i > Len(lines) THEN st
    ELSE Let(CombinedLine(st, lines[i]), LAMBDA next : CombinedLoop(next, lines, i + 1))

parseCombinedLayout(input) ==
    Let(Lines(input), LAMBDA lines :
    Let(CombinedLoop(CombinedStart, lines, 1), LAMBDA st :
        [physical |-> st.physical,
         mapping |-> IF Len(st.fingerValues) > 0
                     THEN [st.mapping EXCEPT !.fingers = st.fingerValues]
                     ELSE st.mapping]))

---------------------------------------------------------------------------
(* parseKeyMapping *)

\* The locals of parseKeyMapping before its loop.  currentLayer is the last
\* element of mapping.layers once it has been pushed (attached); until then
\* it is an object that the result does not hold.
MappingStart ==
    [mapping |-> [name |-> <<>>, base |-> <<>>, layers |-> <<>>, fingers |-> NoFingers],
     currentLayer |-> [keys |-> <<>>],
     attached |-> FALSE,
     parsingFingers |-> FALSE,
     fingerValues |-> <<>>]

\* Variant of NewLayer that leaves finger mode on.
NewLayerKeepsFingers(state) ==
    Let(state, LAMBDA st :
    [st EXCEPT !.currentLayer = [keys |-> <<>>],
               !.mapping.layers = Append(@, [keys |-> <<>>]),
               !.attached = TRUE])

\* currentLayer = { keys: [] }; mapping.layers.push(currentLayer); parsingFingers = false
NewLayer(state) ==
    Let(state, LAMBDA st :
    [st EXCEPT !.currentLayer = [keys |-> <<>>],
               !.mapping.layers = Append(@, [keys |-> <<>>]),
               !.attached = TRUE,
               !.parsingFingers = FALSE])

\* currentLayer.keys.push(...allKeys)
PushKeys(st, allKeys) ==
    IF st.attached
    THEN [st EXCEPT !.currentLayer.keys = @ \o allKeys,
                    !.mapping.layers[Len(st.mapping.layers)].keys = @ \o allKeys]
    ELSE [st EXCEPT !.currentLayer.keys = @ \o allKeys]

\* One iteration of the loop over the lines.
MappingLine(st, line) ==
    IF HeaderMatch(line, MappingTag, IsWordOrDash) /\ IsWord(line[Len(MappingTag) + 1])
    THEN NewLayer([st EXCEPT !.mapping.name = HeaderName(line, MappingTag)])
    ELSE IF HeaderMatch(line, LayerTag, IsDigit)
    THEN NewLayer(st)
    ELSE IF line = KwFingers
    THEN [st EXCEPT !.parsingFingers = TRUE, !.fingerValues = <<>>]
    ELSE Let(KvMatch(line), LAMBDA kv :
             IF ~kv.ok THEN st
             ELSE IF kv.key = KwBase THEN [st EXCEPT !.mapping.base = kv.value]
             ELSE IF ~IsRowKey(kv.key) THEN st
             ELSE Let(FlatMapWs(HandParts(kv.value), 1, FALSE), LAMBDA allKeys :
                      IF st.parsingFingers
                      THEN [st EXCEPT !.fingerValues =
                               @ \o [i \in 1..Len(allKeys) |-> FingerValue(allKeys[i])]]
                      ELSE PushKeys(st, allKeys)))

RECURSIVE MappingLoop(_, _, _)
\* for (const line of lines) from line i on
MappingLoop(st, lines, i) ==
    IF i > Len(lines) THEN st
    ELSE Let(MappingLine(st, lines[i]), LAMBDA next : MappingLoop(next, lines, i + 1))

parseKeyMapping(input) ==
    Let(Lines(input), LAMBDA lines :
    Let(MappingLoop(MappingStart, lines, 1), LAMBDA st :
        IF Len(st.fingerValues) > 0
        THEN [st.mapping EXCEPT !.fingers = st.fingerValues]
        ELSE st.mapping))

---------------------------------------------------------------------------
(* The texts given to the parsers *)

RECURSIVE JoinSp(_)
JoinSp(toks) ==
    IF Len(toks) = 0 THEN <<>>
    ELSE IF Len(toks) = 1 THEN toks[1]
    ELSE toks[1] \o <<" ">> \o JoinSp(Tail(toks))

RowLine(key, toks) == key \o <<":", " ">> \o JoinSp(toks)

Bar == <<"|">>
Gap == <<BrokenBar>>
Row0 == <<"r", "o", "w", "0">>
Row1 == <<"r", "o", "w", "1">>
Thumb0 == <<"t", "h", "u", "m", "b", "0">>

LayoutHeader == LayoutTag \o <<"x", "]">>
PhysicalHeader == PhysicalTag \o <<"p", "]">>
MappingHeader == MappingTag \o <<"m", "]">>
LayerHeader == LayerTag \o <<"1", "]">>
GarbageLine == <<"i", "n", "v", "a", "l", "i", "d", " ", "l", "a", "y", "o", "u", "t", " ", "t", "e", "x", "t">>
CommentLine == <<" ", "#", " ", "c">>
ThumbCountLine == RowLine(KwThumb, << <<"3", ",", "3">> >>)

\* row0: ¦ a ¦ b ¦
GapRow == RowLine(Row0, <<Gap, <<"a">>, Gap, <<"b">>, Gap>>)
\* row0: shift:1.5 a
WideRow == RowLine(Row0, << <<"s", "h", "i", "f", "t", ":", "1", ".", "5">>, <<"a">> >>)
\* row0: 1 2 3 4 5 6 7 8 9 0 ¦
DigitRow == RowLine(Row0, << <<"1">>, <<"2">>, <<"3">>, <<"4">>, <<"5">>, <<"6">>, <<"7">>,
                             <<"8">>, <<"9">>, <<"0">>, Gap >>)
\* row0: ¦:0.25 a ¦:0.5 b
CustomGapRow == RowLine(Row0, << <<BrokenBar, ":", "0", ".", "2", "5">>, <<"a">>,
                                 <<BrokenBar, ":", "0", ".", "5">>, <<"b">> >>)
\* row1: a:0 b | c:-1 _
ZeroWidthRow == RowLine(Row1, << <<"a", ":", "0">>, <<"b">>, Bar, <<"c", ":", "-", "1">>, <<"_">> >>)
\* row0: 1 0 1.5 | 0.5 2
WidthsRow == RowLine(Row0, << <<"1">>, <<"0">>, <<"1", ".", "5">>, Bar, <<"0", ".", "5">>, <<"2">> >>)
\* thumb0: a b
Thumb0Row == RowLine(Thumb0, << <<"a">>, <<"b">> >>)
\* thumb: spc:2 | ent
ThumbRow == RowLine(KwThumb, << <<"s", "p", "c", ":", "2">>, Bar, <<"e", "n", "t">> >>)
\* row0: a b | c
PlainRow == RowLine(Row0, << <<"a">>, <<"b">>, Bar, <<"c">> >>)
\* row0: 1 . | 5
FingerRow == RowLine(Row0, << <<"1">>, <<".">>, Bar, <<"5">> >>)
\* thumb: 4 |
ShortThumbRow == RowLine(KwThumb, << <<"4">>, Bar >>)

RowPool ==
    {LayoutHeader, PhysicalHeader, GarbageLine, CommentLine, ThumbCountLine, GapRow, WideRow,
     DigitRow, CustomGapRow, ZeroWidthRow, WidthsRow, Thumb0Row, ThumbRow}

DocPool ==
    {LayoutHeader, MappingHeader, LayerHeader, KwFingers, PlainRow, FingerRow, ShortThumbRow}

MaxRowLines == 3
MaxDocLines == 4

---------------------------------------------------------------------------
(* The definition text and its parses *)

NumLines(t) == IF t = <<>> THEN 0 ELSE Len(Split(t, "\n"))

AppendLine(t, l) == IF t = <<>> THEN l ELSE t \o <<"\n">> \o l

LayoutInit ==
    /\ text = <<>>
    /\ combined = parseCombinedLayout(<<>>)
    /\ keymap = parseKeyMapping(<<>>)

\* A line is added to the definition text and the parsers are applied to it.
TypeLine(l, max) ==
    /\ NumLines(text) < max
    /\ text' = AppendLine(text, l)
    /\ combined' = parseCombinedLayout(text')
    /\ keymap' = parseKeyMapping(text')
    /\ UNCHANGED exceptLayout

TypeRowLine == \E l \in RowPool : TypeLine(l, MaxRowLines)

TypeDocLine == \E l \in DocPool : TypeLine(l, MaxDocLines)

---------------------------------------------------------------------------
(* Vocabulary of the claims *)

AllLines == RowPool \cup DocPool

\* the step gives line l to the parsers
Typed(l) == text' = AppendLine(text, l) /\ text' # text

\* some line of the text satisfies P
SomeLine(t, P(_)) == \E i \in 1..Len(Lines(t)) : P(Lines(t)[i])

IsLayoutHeader(l) == HeaderMatch(l, LayoutTag, IsWordOrDash)
IsMappingHeader(l) == HeaderMatch(l, MappingTag, IsWordOrDash)
IsLayerHeader(l) == HeaderMatch(l, LayerTag, IsDigit)
IsAnyHeader(l) ==
    IsLayoutHeader(l) \/ IsMappingHeader(l) \/ HeaderMatch(l, PhysicalTag, IsWord)

SeenLayoutHeader(t) == SomeLine(t, IsLayoutHeader)
SeenFingers(t) == SomeLine(t, LAMBDA l : l = KwFingers)

\* a `row<N>: ...` or `thumb: ...` line carrying row tokens
IsRowDataLine(l) ==
    LET kv == KvMatch(Trim(l))
    IN  /\ kv.ok
        /\ \/ kv.key = KwThumb /\ ~IsThumbCount(kv.value)
           \/ /\ StartsWith(kv.key, KwRow)
              /\ Len(kv.key) > Len(KwRow)
              /\ \A i \in (Len(KwRow) + 1)..Len(kv.key) : IsDigit(kv.key[i])

\* a `thumb<N>: ...` line
IsNumberedThumbLine(l) ==
    LET kv == KvMatch(Trim(l))
    IN  /\ kv.ok
        /\ StartsWith(kv.key, KwThumb)
        /\ Len(kv.key) > Len(KwThumb)
        /\ \A i \in (Len(KwThumb) + 1)..Len(kv.key) : IsDigit(kv.key[i])

\* the whitespace-separated tokens of hand h (1 = left, 2 = right) of a row line
SideTokens(l, h) ==
    LET parts == Split(KvMatch(Trim(l)).value, "|")
    IN  IF h <= Len(parts) THEN SelectSeq(SplitWs(Trim(parts[h])), NonEmpty) ELSE <<>>

LineTokens(l) == SideTokens(l, 1) \o SideTokens(l, 2)

\* what the step appended to physical.keys and to layer 0
NewKeys ==
    SubSeq(combined'.physical.keys, Len(combined.physical.keys) + 1,
           Len(combined'.physical.keys))
NewLabels ==
    SubSeq(combined'.mapping.layers[1].keys, Len(combined.mapping.layers[1].keys) + 1,
           Len(combined'.mapping.layers[1].keys))

OnHand(keys, hand) == SelectSeq(keys, LAMBDA k : k.hand = hand)

HandName(h) == IF h = 1 THEN "left" ELSE "right"

\* the token is the gap glyph alone
IsBareGap(tok) == tok = <<BrokenBar>>

\* the token is the gap glyph followed by :width
IsQualifiedGap(tok) ==
    ColonMatch(tok) > 0 /\ SubSeq(tok, 1, ColonMatch(tok) - 1) = <<BrokenBar>>

\* the token matches ^[0-9]+(\.[0-9]+)?$
PurelyNumeric(tok) ==
    LET e == DigitsEnd(tok, 1)
    IN  /\ e > 1
        /\ \/ e = Len(tok) + 1
           \/ tok[e] = "." /\ e < Len(tok) /\ DigitsEnd(tok, e + 1) = Len(tok) + 1

\* the outcome the specification calls a FormatError
FormatError == [error |-> "FormatError"]

---------------------------------------------------------------------------
(* C1: index alignment of keys, labels and fingers *)

RECURSIVE FingerTokensFrom(_, _)
\* the number of row tokens on the lines from line i on
FingerTokensFrom(L, i) ==
    IF i > Len(L) THEN 0
    ELSE (IF IsRowDataLine(L[i]) THEN Len(LineTokens(L[i])) ELSE 0)
         + FingerTokensFrom(L, i + 1)

\* the index of the last `fingers:` line, 0 when there is none
LastFingersLine(L) ==
    IF \E i \in 1..Len(L) : L[i] = KwFingers
    THEN CHOOSE i \in 1..Len(L) : L[i] = KwFingers /\ \A j \in (i + 1)..Len(L) : L[j] # KwFingers
    ELSE 0

\* the number of row tokens after the last `fingers:` line
FingerTokens(t) ==
    LET L == Lines(t)
        f == LastFingersLine(L)
    IN  IF f = 0 THEN 0 ELSE FingerTokensFrom(L, f + 1)

\* the document begins with the [layout:] header
HeaderFirst(t) == Lines(t) # <<>> /\ IsLayoutHeader(Lines(t)[1])

---------------------------------------------------------------------------
(* C2: the column cursor *)

\* a row line met while the combined format is on and finger mode is off
CombinedKeyLine(l) ==
    /\ Typed(l)
    /\ SeenLayoutHeader(text)
    /\ ~SeenFingers(text)
    /\ IsRowDataLine(l)

\* the advance C2 gives a token: its width qualifier, else a quarter unit for
\* the gap glyph, else one unit
Advance(tok) ==
    IF ColonMatch(tok) > 0
    THEN ParseFloat(SubSeq(tok, ColonMatch(tok) + 1, Len(tok))).v
    ELSE IF IsBareGap(tok) THEN Unit \div 4 ELSE Unit

RECURSIVE AdvanceSum(_, _)
\* the sum of the advances of the first n tokens
AdvanceSum(toks, n) ==
    IF n = 0 THEN 0 ELSE AdvanceSum(toks, n - 1) + Advance(toks[n])

RECURSIVE ClaimedCols(_, _)
\* the columns C2 gives the slots of one hand: one per token that is not a gap
ClaimedCols(toks, i) ==
    IF i > Len(toks) THEN <<>>
    ELSE (IF IsBareGap(toks[i]) \/ IsQualifiedGap(toks[i])
          THEN <<>> ELSE <<AdvanceSum(toks, i - 1)>>)
         \o ClaimedCols(toks, i + 1)

Cols(keys) == [i \in 1..Len(keys) |-> keys[i].col]

\* C2 as stated: the slots a row line emits for a hand are those of its
\* tokens that are not gaps, each at the sum of the advances of the tokens
\* before it on that hand.
C2_CursorIsSumOfAdvances ==
    [][\A l \in AllLines : CombinedKeyLine(l) =>
          \A h \in {1, 2} :
             Cols(OnHand(NewKeys, HandName(h))) = ClaimedCols(SideTokens(l, h), 1)]_vars

---------------------------------------------------------------------------
(* C3: columns within a row and hand *)

\* C3 as stated, for documents whose slots all have a positive width: two
\* slots of the same row and hand have strictly increasing columns in
\* emission order.
C3_Original ==
    LET keys == combined.physical.keys
    IN  (\A i \in 1..Len(keys) : keys[i].width > 0) =>
           \A i, j \in 1..Len(keys) :
              (i < j /\ keys[i].row = keys[j].row /\ keys[i].hand = keys[j].hand)
                 => keys[i].col < keys[j].col

\* C3 amended: among the slots one row line emits for one hand, each slot
\* starts at or after the end of the slot before it, so columns do not
\* decrease, and they increase strictly after a slot of positive width.
C3_IncreasingWithinLine ==
    [][\A l \in AllLines : (Typed(l) /\ ~SeenFingers(text) /\ IsRowDataLine(l)) =>
          \A h \in {1, 2} :
             LET K == OnHand(NewKeys, HandName(h))
             IN  \A j \in 1..(Len(K) - 1) :
                    /\ K[j + 1].row = K[j].row
                    /\ K[j + 1].col >= K[j].col + K[j].width
                    /\ K[j].width > 0 => K[j + 1].col > K[j].col]_vars

\* two slots of one row and hand, the second one after a gap
C3_Witness ==
    \E i \in 1..(Len(combined.physical.keys) - 1) :
       LET a == combined.physical.keys[i]
           b == combined.physical.keys[i + 1]
       IN  /\ a.row = b.row /\ a.hand = b.hand
           /\ a.col = Unit \div 4
           /\ b.col > a.col + a.width

---------------------------------------------------------------------------
(* C4: numeric tokens in the combined format *)

HasQualifiedGap(l) ==
    \E i \in 1..Len(LineTokens(l)) : IsQualifiedGap(LineTokens(l)[i])

---------------------------------------------------------------------------
(* C5: the gap glyph with a width *)

\* C5 as stated: on a row line of the combined format, a token made of the
\* gap glyph and :width emits no slot and no label, so the line's slots and
\* labels are those of its other non-gap tokens and none is labelled with the
\* gap glyph.
C5_QualifiedGapEmitsNothing ==
    [][\A l \in AllLines : (CombinedKeyLine(l) /\ HasQualifiedGap(l)) =>
          LET toks == SelectSeq(LineTokens(l),
                                LAMBDA tok : ~IsBareGap(tok) /\ ~IsQualifiedGap(tok))
          IN  /\ Len(NewKeys) = Len(toks)
              /\ NewLabels = toks]_vars

---------------------------------------------------------------------------
(* C6: zero and negative widths *)

\* the token is label:width with a width that is zero or negative
HasNonPositiveWidth(tok) ==
    LET k == NextSep(tok, ":", 1)
        w == SubSeq(tok, k + 1, Len(tok))
    IN  /\ k > 1
        /\ k < Len(tok)
        /\ \/ PurelyNumeric(w) /\ ParseFloat(w).v = 0
           \/ w[1] = "-" /\ PurelyNumeric(Tail(w))

\* C6 as stated: a row token with a zero or negative width makes the parse
\* fail, and no slot of width 0 or less is ever emitted.
C6_NonPositiveWidthRejected ==
    /\ SomeLine(text, LAMBDA l :
          IsRowDataLine(l) /\ \E i \in 1..Len(LineTokens(l)) :
                                 HasNonPositiveWidth(LineTokens(l)[i]))
          => combined = FormatError
    /\ combined # FormatError
          => \A i \in 1..Len(combined.physical.keys) : combined.physical.keys[i].width > 0

---------------------------------------------------------------------------
(* C7: format errors *)

\* the line is neither a header, nor `fingers:`, nor a key: value line
Unclassifiable(l) ==
    /\ ~IsAnyHeader(l)
    /\ ~IsLayerHeader(l)
    /\ l # KwFingers
    /\ ~KvMatch(l).ok

\* C7 as stated: a text with lines but no header, or with a line that cannot
\* be classified, gives a FormatError and no {physical, mapping} result.
C7_FormatErrorRaised ==
    (Lines(text) # <<>> /\ (~SomeLine(text, IsAnyHeader) \/ SomeLine(text, Unclassifiable)))
       => combined = FormatError

---------------------------------------------------------------------------
(* C8: layer headers *)

\* the number of lines of L that satisfy P
Count(L, P(_)) == Cardinality({i \in 1..Len(L) : P(L[i])})

\* the last mode-changing line of the text is a [layer:N] header
InNewLayer(t) ==
    LET L == Lines(t)
    IN  \E i \in 1..Len(L) :
           /\ IsLayerHeader(L[i])
           /\ \A j \in (i + 1)..Len(L) :
                 ~IsLayerHeader(L[j]) /\ ~IsMappingHeader(L[j]) /\ L[j] # KwFingers

\* row lines come before the first [layer:N] header
BaseRowsThenLayers(t) ==
    LET L == Lines(t)
    IN  \E i \in 1..Len(L) :
           /\ IsLayerHeader(L[i])
           /\ \A j \in 1..(i - 1) : ~IsLayerHeader(L[j])
           /\ \E j \in 1..(i - 1) : IsRowDataLine(L[j])
           /\ \A j \in 1..(i - 1) : L[j] # KwFingers

---------------------------------------------------------------------------
(* C9: numbered thumb rows *)

\* C9 as stated: each token of a thumb<N> row line yields one thumb slot and
\* its label.
C9_NumberedThumbRows ==
    [][\A l \in AllLines :
          (Typed(l) /\ ~SeenFingers(text) /\ IsNumberedThumbLine(l)) =>
             /\ Len(NewKeys) = Len(LineTokens(l))
             /\ \A i \in 1..Len(NewKeys) : NewKeys[i].isThumb
             /\ NewLabels = LineTokens(l)]_vars

---------------------------------------------------------------------------
(* C10: numeric tokens in the physical-only format *)

RECURSIVE LegacySlots(_, _, _)
\* <<col, width>> of the slots C10 gives the numeric tokens of one hand
LegacySlots(toks, i, cursor) ==
    IF i > Len(toks) THEN <<>>
    ELSE IF toks[i] = <<"0">>
    THEN LegacySlots(toks, i + 1, cursor + Unit)
    ELSE <<<<cursor, ParseFloat(toks[i]).v>>>>
         \o LegacySlots(toks, i + 1, cursor + ParseFloat(toks[i]).v)

\* C10 as stated: on a row line of numeric tokens met before any [layout:]
\* header, "0" emits nothing and advances the cursor by 1, and any other
\* number w emits one unlabeled slot of width w at the cursor and advances
\* the cursor by w.
C10_LegacyNumericTokens ==
    [][\A l \in AllLines :
          (/\ Typed(l)
           /\ ~SeenLayoutHeader(text)
           /\ ~SeenFingers(text)
           /\ IsRowDataLine(l)
           /\ \A i \in 1..Len(LineTokens(l)) : PurelyNumeric(LineTokens(l)[i])) =>
             /\ NewLabels = <<>>
             /\ \A h \in {1, 2} :
                   LET K == OnHand(NewKeys, HandName(h))
                   IN  [i \in 1..Len(K) |-> <<K[i].col, K[i].width>>]
                          = LegacySlots(SideTokens(l, h), 1, 0)]_vars

---------------------------------------------------------------------------
(* C11: the finger placeholder *)

RECURSIVE FingerTokenSeq(_, _)
\* the row tokens on the lines from line i on, in document order
FingerTokenSeq(L, i) ==
    IF i > Len(L) THEN <<>>
    ELSE (IF IsRowDataLine(L[i]) THEN LineTokens(L[i]) ELSE <<>>)
         \o FingerTokenSeq(L, i + 1)

\* the finger tokens of the document: the row tokens after the last `fingers:` line
FingerTokensOf(t) ==
    LET L == Lines(t)
        f == LastFingersLine(L)
    IN  IF f = 0 THEN <<>> ELSE FingerTokenSeq(L, f + 1)

\* the entry C11 gives a finger token: null for `.`, else its integer value
ClaimedFinger(tok) == IF tok = <<".">> THEN NullV ELSE ParseInt(tok)

ClaimedFingers(t) ==
    [i \in 1..Len(FingerTokensOf(t)) |-> ClaimedFinger(FingerTokensOf(t)[i])]

RECURSIVE SectionTokenSeq(_, _)
\* the row tokens from line i on, up to the header that ends the section
SectionTokenSeq(L, i) ==
    IF i > Len(L) \/ IsLayerHeader(L[i]) \/ IsMappingHeader(L[i]) THEN <<>>
    ELSE (IF IsRowDataLine(L[i]) THEN LineTokens(L[i]) ELSE <<>>)
         \o SectionTokenSeq(L, i + 1)

\* the finger tokens for parseKeyMapping, where a [mapping:] or [layer:N]
\* header ends the `fingers:` section
SectionFingers(t) ==
    LET L == Lines(t)
        f == LastFingersLine(L)
        toks == IF f = 0 THEN <<>> ELSE SectionTokenSeq(L, f + 1)
    IN  [i \in 1..Len(toks) |-> ClaimedFinger(toks[i])]

\* C11 as stated: the i-th finger token of the `fingers:` section determines
\* mapping.fingers[i], a `.` giving null, in parseCombinedLayout and in
\* parseKeyMapping.
C11_FingerTokenAtItsIndex ==
    /\ combined.mapping.fingers = ClaimedFingers(text)
    /\ keymap.fingers = SectionFingers(text)

---------------------------------------------------------------------------
(* Calls of parseCombinedLayout and the objects they return *)

\* the texts given to repeated calls of the parser
CallTexts ==
    {<<>>, GarbageLine, AppendLine(LayoutHeader, PlainRow),
     AppendLine(AppendLine(LayoutHeader, PlainRow), AppendLine(KwFingers, FingerRow)),
     AppendLine(LayoutHeader, CustomGapRow)}

MaxCalls == 4

\* Variant of NewObject in which the calls share one result object.
SharedObject(h) == 1

\* const physical = {...}; const mapping = {...}: every call builds its result
\* in objects of its own
NewObject(h) == Len(h) + 1

CallsInit ==
    /\ calls = <<>>
    /\ heap = <<>>

\* const { physical, mapping } = parseCombinedLayout(input)
ParseCall(input) ==
    /\ Len(calls) < MaxCalls
    /\ LET ref == NewObject(heap)
       IN  /\ heap' = [i \in 1..(IF ref > Len(heap) THEN ref ELSE Len(heap)) |->
                          IF i = ref THEN parseCombinedLayout(input) ELSE heap[i]]
           /\ calls' = Append(calls, [input |-> input, ref |-> ref])
    /\ UNCHANGED exceptCalls

ParseSomeText == \E input \in CallTexts : ParseCall(input)

---------------------------------------------------------------------------
(* C12: parsing is a pure function of its text *)

\* the result of the i-th call as its caller sees it now
ResultOf(c, h, i) == h[c[i].ref]

---------------------------------------------------------------------------
(* The ZMK importer: zmkToLabel and parseBindings *)

ToUpperChar(c) ==
    IF c \in Range(LowerSeq)
    THEN UpperSeq[CHOOSE i \in 1..Len(LowerSeq) : LowerSeq[i] = c]
    ELSE c

ToUpperCase(s) == [i \in 1..Len(s) |-> ToUpperChar(s[i])]

\* ZMK_TO_LABEL, the entries for the keycodes of the model's inputs
ZMK_TO_LABEL ==
    [k \in {<<"A">>, <<"Q">>, <<"N", "1">>, <<"S", "P", "A", "C", "E">>, <<"E", "S", "C">>, <<"L", "G", "U", "I">>} |->
        IF k = <<"A">> THEN <<"a">>
        ELSE IF k = <<"Q">> THEN <<"q">>
        ELSE IF k = <<"N", "1">> THEN <<"1">>
        ELSE IF k = <<"S", "P", "A", "C", "E">> THEN <<"s", "p", "c">>
        ELSE IF k = <<"E", "S", "C">> THEN <<"e", "s", "c">>
        ELSE <<"l", "g", "u", "i">>]

zmkToLabel(keycode) ==
    IF keycode \in DOMAIN ZMK_TO_LABEL THEN ZMK_TO_LABEL[keycode]
    ELSE IF ToUpperCase(keycode) \in DOMAIN ZMK_TO_LABEL
    THEN ZMK_TO_LABEL[ToUpperCase(keycode)]
    ELSE ToLowerCase(keycode)

Amp == "&"
AmpKp == <<"&", "k", "p">>
AmpTrans == <<"&", "t", "r", "a", "n", "s">>
AmpNone == <<"&", "n", "o", "n", "e">>
AmpLt == <<"&", "l", "t">>
AmpMt == <<"&", "m", "t">>
AmpMo == <<"&", "m", "o">>
AmpTo == <<"&", "t", "o">>
AmpTog == <<"&", "t", "o", "g">>
AmpSk == <<"&", "s", "k">>
AmpSl == <<"&", "s", "l">>
AmpBt == <<"&", "b", "t">>
AmpBootloader == <<"&", "b", "o", "o", "t", "l", "o", "a", "d", "e", "r">>
AmpReset == <<"&", "r", "e", "s", "e", "t">>
AmpSysReset == <<"&", "s", "y", "s", "_", "r", "e", "s", "e", "t">>
AmpOut == <<"&", "o", "u", "t">>
AmpStudioUnlock == <<"&", "s", "t", "u", "d", "i", "o", "_", "u", "n", "l", "o", "c", "k">>
BtSel == <<"B", "T", "_", "S", "E", "L">>
BtClr == <<"B", "T", "_", "C", "L", "R">>
Blank == <<"_">>

\* Variant of HasNext that does not look at the length of the list.
HasNextAlways(tokens, i) == TRUE

\* i + 1 < tokens.length, for the token after position i
HasNext(tokens, i) == i + 1 <= Len(tokens)

\* /^[A-Z0-9_]+$/.test(arg) || /^L[CSAG]\(/.test(arg) || /^R[CSAG]\(/.test(arg)
LooksLikeKeycode(arg) ==
    \/ arg # <<>> /\ \A i \in 1..Len(arg) :
                        arg[i] \in Range(UpperSeq) \/ IsDigit(arg[i]) \/ arg[i] = "_"
    \/ /\ Len(arg) >= 3
       /\ arg[1] \in {"L", "R"}
       /\ arg[2] \in {"C", "S", "A", "G"}
       /\ arg[3] = "("

\* one label pushed, the index moved past n argument tokens
Pushed(st, label, n) == [st EXCEPT !.keys = Append(@, label), !.i = @ + n]

\* the index moved by n, a keycode label pushed if a token is there
KeycodeAfter(st, tokens, n) ==
    IF st.i + n <= Len(tokens)
    THEN Pushed(st, zmkToLabel(tokens[st.i + n]), n)
    ELSE [st EXCEPT !.i = @ + n]

\* the &bt branch
Bluetooth(st, tokens) ==
    IF st.i + 1 <= Len(tokens)
    THEN IF tokens[st.i + 1] = BtSel /\ st.i + 2 <= Len(tokens)
         THEN Pushed(st, <<"b", "t">> \o tokens[st.i + 2], 2)
         ELSE IF tokens[st.i + 1] = BtClr
         THEN Pushed(st, <<"b", "t", "c", "l", "r">>, 1)
         ELSE Pushed(st, <<"b", "t">>, 1)
    ELSE Pushed(st, <<"b", "t">>, 1)

RECURSIVE CustomArgsFirst(_, _, _, _)
\* Variant of CustomArgs that keeps the first keycode-like argument.
CustomArgsFirst(tokens, i, argCount, lastKeycode) ==
    IF i + 1 > Len(tokens) \/ tokens[i + 1][1] = Amp
    THEN [i |-> i, argCount |-> argCount, lastKeycode |-> lastKeycode, thrown |-> FALSE]
    ELSE Let(IF LooksLikeKeycode(tokens[i + 1]) /\ lastKeycode = <<>>
             THEN <<tokens[i + 1]>> ELSE lastKeycode,
             LAMBDA last : CustomArgsFirst(tokens, i + 1, argCount + 1, last))

RECURSIVE CustomArgs(_, _, _, _)
\* the look-ahead loop of a custom behaviour; reading startsWith of a token
\* that is not there throws
CustomArgs(tokens, i, argCount, lastKeycode) ==
    IF ~HasNext(tokens, i)
    THEN [i |-> i, argCount |-> argCount, lastKeycode |-> lastKeycode, thrown |-> FALSE]
    ELSE IF i + 1 > Len(tokens)
    THEN [i |-> i, argCount |-> argCount, lastKeycode |-> lastKeycode, thrown |-> TRUE]
    ELSE IF tokens[i + 1][1] = Amp
    THEN [i |-> i, argCount |-> argCount, lastKeycode |-> lastKeycode, thrown |-> FALSE]
    ELSE Let(IF LooksLikeKeycode(tokens[i + 1]) THEN <<tokens[i + 1]>> ELSE lastKeycode,
             LAMBDA last : CustomArgs(tokens, i + 1, argCount + 1, last))

\* behaviorName.toLowerCase().slice(0, 4) || '_'
NameLabel(behaviorName) ==
    LET n == SubSeq(ToLowerCase(behaviorName), 1,
                    IF Len(behaviorName) < 4 THEN Len(behaviorName) ELSE 4)
    IN  IF n = <<>> THEN Blank ELSE n

\* Variant of CustomBehavior that pushes nothing when no argument is a keycode.
CustomBehaviorSilent(st, tokens) ==
    Let(CustomArgs(tokens, st.i, 0, <<>>), LAMBDA r :
        IF r.lastKeycode # <<>>
        THEN Pushed(st, zmkToLabel(r.lastKeycode[1]), r.i - st.i)
        ELSE IF r.argCount = 0
        THEN Pushed(st, NameLabel(Tail(tokens[st.i])), 0)
        ELSE [st EXCEPT !.i = r.i])

\* the branch of a custom behaviour or macro
CustomBehavior(st, tokens) ==
    Let(CustomArgs(tokens, st.i, 0, <<>>), LAMBDA r :
        IF r.thrown THEN [st EXCEPT !.thrown = TRUE, !.i = Len(tokens)]
        ELSE IF r.lastKeycode # <<>>
        THEN Pushed(st, zmkToLabel(r.lastKeycode[1]), r.i - st.i)
        ELSE IF r.argCount = 0
        THEN Pushed(st, NameLabel(Tail(tokens[st.i])), 0)
        ELSE Pushed(st, Blank, r.i - st.i))

\* the if / else-if chain on one token
BindingStep(st, tokens) ==
    LET token == tokens[st.i]
    IN  IF token = AmpKp THEN KeycodeAfter(st, tokens, 1)
        ELSE IF StartsWith(token, AmpKp)
        THEN Pushed(st, zmkToLabel(SubSeq(token, 4, Len(token))), 0)
        ELSE IF token = AmpTrans \/ token = AmpNone THEN Pushed(st, Blank, 0)
        ELSE IF token = AmpLt \/ token = AmpMt THEN KeycodeAfter(st, tokens, 2)
        ELSE IF token = AmpMo THEN Pushed(st, <<"m", "o">>, 1)
        ELSE IF token = AmpTo THEN Pushed(st, <<"t", "o">>, 1)
        ELSE IF token = AmpTog THEN Pushed(st, <<"t", "o", "g">>, 1)
        ELSE IF token = AmpSk THEN KeycodeAfter(st, tokens, 1)
        ELSE IF token = AmpSl THEN Pushed(st, <<"s", "l">>, 1)
        ELSE IF token = AmpBt THEN Bluetooth(st, tokens)
        ELSE IF token \in {AmpBootloader, AmpReset, AmpSysReset} THEN Pushed(st, <<"r", "s", "t">>, 0)
        ELSE IF token = AmpOut THEN Pushed(st, <<"o", "u", "t">>, 1)
        ELSE IF token = AmpStudioUnlock THEN Pushed(st, Blank, 0)
        ELSE IF token[1] = Amp THEN CustomBehavior(st, tokens)
        ELSE st

RECURSIVE BindingLoop(_, _)
\* while (i < tokens.length) { ...; i++ }
BindingLoop(st, tokens) ==
    IF st.i > Len(tokens) THEN st
    ELSE Let(BindingStep(st, tokens), LAMBDA next :
             BindingLoop([next EXCEPT !.i = @ + 1], tokens))

\* the labels of a binding list, or thrown
parseBindings(bindingsStr) ==
    Let(SelectSeq(SplitWs(Trim(bindingsStr)), NonEmpty), LAMBDA tokens :
        Let(BindingLoop([i |-> 1, keys |-> <<>>, thrown |-> FALSE], tokens), LAMBDA st :
            [keys |-> st.keys, thrown |-> st.thrown]))

---------------------------------------------------------------------------
(* Binding lists *)

\* &kp A
KpA == <<"&", "k", "p", " ", "A">>
\* &kp
KpBare == <<"&", "k", "p">>
\* &trans
TransExpr == <<"&", "t", "r", "a", "n", "s">>
\* &lt 1 Q
LayerTapExpr == <<"&", "l", "t", " ", "1", " ", "Q">>
\* &mo 1
MoExpr == <<"&", "m", "o", " ", "1">>
\* &bt BT_SEL 0
BtSelExpr == <<"&", "b", "t", " ", "B", "T", "_", "S", "E", "L", " ", "0">>
\* &gqt LGUI Q
HoldTapExpr == <<"&", "g", "q", "t", " ", "L", "G", "U", "I", " ", "Q">>
\* &hm LS(Q) x
ModWrapExpr == <<"&", "h", "m", " ", "L", "S", "(", "Q", ")", " ", "x">>
\* &caps_word
CapsWordExpr == <<"&", "c", "a", "p", "s", "_", "w", "o", "r", "d">>
\* &Macro
MacroExpr == <<"&", "M", "a", "c", "r", "o">>
\* &td x
LowerArgExpr == <<"&", "t", "d", " ", "x">>

BindingPool ==
    {KpA, KpBare, TransExpr, LayerTapExpr, MoExpr, BtSelExpr, HoldTapExpr, ModWrapExpr, CapsWordExpr, MacroExpr, LowerArgExpr}

MaxBindings == 3

\* the number of behaviour expressions put in the list
NumBindings(str) == Cardinality({i \in 1..Len(str) : str[i] = Amp})

BindingsInit ==
    /\ bindingList = <<>>
    /\ bindings = parseBindings(<<>>)

\* A behaviour expression is added to the list and the list is parsed.
AddBinding(e) ==
    /\ NumBindings(bindingList) < MaxBindings
    /\ bindingList' = (IF bindingList = <<>> THEN e ELSE bindingList \o <<" ">> \o e)
    /\ bindings' = parseBindings(bindingList')
    /\ UNCHANGED exceptBindings

AddSomeBinding == \E e \in BindingPool : AddBinding(e)

---------------------------------------------------------------------------
(* C13: one label per behaviour expression *)

\* the tokens of a binding list
BindingTokens(str) == SelectSeq(SplitWs(Trim(str)), NonEmpty)

\* the token begins with &
IsBehavior(tok) == tok[1] = "&"

\* the number of argument tokens the built-in behaviour takes
ArgsTaken(tok) ==
    IF tok \in {AmpLt, AmpMt} THEN 2
    ELSE IF tok \in {AmpKp, AmpSk, AmpMo, AmpTo, AmpTog, AmpSl, AmpOut, AmpBt} THEN 1
    ELSE 0

\* every built-in behaviour of the list is followed by the arguments it takes,
\* none of them beginning with &
ArgsPresent(toks) ==
    \A i \in 1..Len(toks) :
       IsBehavior(toks[i]) =>
          \A k \in 1..(ArgsTaken(toks[i])
                        + (IF toks[i] = AmpBt /\ i < Len(toks) /\ toks[i + 1] = BtSel
                           THEN 1 ELSE 0)) :
             i + k <= Len(toks) /\ ~IsBehavior(toks[i + k])

NumBehaviors(toks) == Cardinality({i \in 1..Len(toks) : IsBehavior(toks[i])})

\* C13 as stated: for every binding list the number of labels equals the
\* number of tokens that begin with &.
C13_Original ==
    ~bindings.thrown /\ Len(bindings.keys) = NumBehaviors(BindingTokens(bindingList))

\* C13 amended: for every binding list in which each built-in behaviour is
\* followed by the arguments it takes, the number of labels equals the number
\* of tokens that begin with &; the arguments yield no label.
C13_OneLabelPerBehavior ==
    ArgsPresent(BindingTokens(bindingList)) =>
       ~bindings.thrown /\ Len(bindings.keys) = NumBehaviors(BindingTokens(bindingList))

\* three behaviours with six arguments between them gave three labels
C13_Witness ==
    /\ ArgsPresent(BindingTokens(bindingList))
    /\ NumBehaviors(BindingTokens(bindingList)) = 3
    /\ Len(BindingTokens(bindingList)) = 9
    /\ Len(bindings.keys) = 3

---------------------------------------------------------------------------
(* C15: the label of a custom behaviour *)

BuiltIn ==
    {AmpKp, AmpTrans, AmpNone, AmpLt, AmpMt, AmpMo, AmpTo, AmpTog, AmpSk, AmpSl, AmpBt,
     AmpBootloader, AmpReset, AmpSysReset, AmpOut, AmpStudioUnlock}

\* the expression is a behaviour that is not built in, with its arguments
IsCustomExpr(e) ==
    LET toks == BindingTokens(e)
    IN  /\ toks # <<>>
        /\ IsBehavior(toks[1])
        /\ toks[1] \notin BuiltIn
        /\ ~StartsWith(toks[1], AmpKp)
        /\ \A i \in 2..Len(toks) : ~IsBehavior(toks[i])

\* an all-caps identifier (capitals, digits, underscores) or a
\* modifier-wrapped form: L or R, one of C S A G, an opening parenthesis
KeycodeLike(arg) ==
    \/ arg # <<>> /\ \A i \in 1..Len(arg) :
                        arg[i] \in Range(UpperSeq) \cup Digits \cup {"_"}
    \/ Len(arg) >= 3 /\ arg[1] \in {"L", "R"} /\ arg[2] \in {"C", "S", "A", "G"}
                     /\ arg[3] = "("

FirstFour(name) == SubSeq(name, 1, IF Len(name) < 4 THEN Len(name) ELSE 4)

\* the label C15 gives a custom expression; lower tells whether the name is
\* put in lower case first
ClaimedCustomLabel(e, lower) ==
    LET toks == BindingTokens(e)
        args == Tail(toks)
        like == {i \in 1..Len(args) : KeycodeLike(args[i])}
        name == Tail(toks[1])
    IN  IF like # {}
        THEN zmkToLabel(args[CHOOSE i \in like : \A j \in like : j <= i])
        ELSE IF args = <<>>
        THEN (IF lower
              THEN (IF name = <<>> THEN Blank ELSE FirstFour(ToLowerCase(name)))
              ELSE FirstFour(name))
        ELSE Blank

\* the step adds expression e to a list whose behaviours have their arguments
AddedTo(e) ==
    /\ bindingList' = (IF bindingList = <<>> THEN e ELSE bindingList \o <<" ">> \o e)
    /\ bindingList' # bindingList
    /\ ArgsPresent(BindingTokens(bindingList))

\* C15 as stated: a custom behaviour with its arguments adds one label: that
\* of its last keycode-like argument, else the first 4 characters of its name
\* when it has no argument, else `_`.
C15_Original ==
    [][\A e \in BindingPool : (AddedTo(e) /\ IsCustomExpr(e)) =>
          bindings'.keys = Append(bindings.keys, ClaimedCustomLabel(e, FALSE))]_vars

\* C15 amended: as C15, the name being put in lower case before its first 4
\* characters are taken, and `_` standing for an empty name.
C15_CustomBehaviorLabel ==
    [][\A e \in BindingPool : (AddedTo(e) /\ IsCustomExpr(e)) =>
          bindings'.keys = Append(bindings.keys, ClaimedCustomLabel(e, TRUE))]_vars

\* a modifier-wrapped argument, a behaviour without arguments and one whose
\* argument is no keycode gave the labels ls(q), caps and _
C15_Witness ==
    bindings.keys = << <<"l", "s", "(", "q", ")">>, <<"c", "a", "p", "s">>, <<"_">> >>

---------------------------------------------------------------------------
(* The ZMK keymap importer: parseZmkKeymap *)

KwKeymap == <<"k", "e", "y", "m", "a", "p">>
KwBindings == <<"b", "i", "n", "d", "i", "n", "g", "s">>

\* the characters of w stand in s from index i on
MatchesAt(s, i, w) ==
    /\ i + Len(w) - 1 <= Len(s)
    /\ s[i] = w[1]
    /\ SubSeq(s, i, i + Len(w) - 1) = w

\* /keymap\s*\{/ matches at index i
KeymapAt(s, i) ==
    /\ MatchesAt(s, i, KwKeymap)
    /\ Let(FirstNonSpace(s, i + Len(KwKeymap)), LAMBDA j : j <= Len(s) /\ s[j] = "{")

\* the least index of a non-empty set of indices
Least(S) == CHOOSE i \in S : \A j \in S : i <= j

\* content.search(/keymap\s*\{/): the index of the first match, 0 for none
SearchKeymap(s) ==
    Let({i \in 1..Len(s) : KeymapAt(s, i)}, LAMBDA S : IF S = {} THEN 0 ELSE Least(S))

\* the index of the first character of cs at or after i, Len(s) + 1 for none
IndexOfAny(s, cs, i) ==
    Let({k \in i..Len(s) : s[k] \in cs}, LAMBDA S :
        IF S = {} THEN Len(s) + 1 ELSE Least(S))

RECURSIVE BraceLoop(_, _, _, _)
\* the index of the brace that closes the keymap block, 0 for none; the loop
\* is taken from brace to brace, the characters between change nothing
BraceLoop(s, from, braceCount, inKeymap) ==
    Let(IndexOfAny(s, {"{", "}"}, from), LAMBDA i :
        IF i > Len(s) THEN 0
        ELSE IF s[i] = "{" THEN BraceLoop(s, i + 1, braceCount + 1, TRUE)
        ELSE IF inKeymap /\ braceCount - 1 = 0 THEN i
        ELSE BraceLoop(s, i + 1, braceCount - 1, inKeymap))

\* /bindings\s*=\s*<([\s\S]*?)>/ matches at index i: the indices of < and >
BindingsAt(s, i) ==
    IF ~MatchesAt(s, i, KwBindings) THEN <<>>
    ELSE Let(FirstNonSpace(s, i + Len(KwBindings)), LAMBDA j :
         IF j > Len(s) \/ s[j] # "=" THEN <<>>
         ELSE Let(FirstNonSpace(s, j + 1), LAMBDA k :
              IF k > Len(s) \/ s[k] # "<" THEN <<>>
              ELSE Let(IndexOfAny(s, {">"}, k + 1), LAMBDA g :
                   IF g > Len(s) THEN <<>> ELSE <<k, g>>)))

\* bindingsPattern.exec from lastIndex on: [index, open, close], <<>> for null
ExecBindings(s, lastIndex) ==
    Let({i \in lastIndex..Len(s) : BindingsAt(s, i) # <<>>}, LAMBDA S :
        IF S = {} THEN <<>>
        ELSE Let(Least(S), LAMBDA i : <<i>> \o BindingsAt(s, i)))

\* the index of the last brace at or before i, 0 for none
LastBrace(s, i) ==
    Let({k \in 1..i : s[k] \in {"{", "}"}}, LAMBDA S :
        IF S = {} THEN 0 ELSE CHOOSE k \in S : \A j \in S : j <= k)

RECURSIVE WordStart(_, _)
\* the first index of the run of word characters that ends at j
WordStart(s, j) ==
    IF j > 1 /\ IsWord(s[j - 1]) THEN WordStart(s, j - 1) ELSE j

\* Variant of LayerMatch that takes the last opening brace, whatever follows it.
LayerMatchAnyOpen(beforeBindings) ==
    Let(IndexOfAny(beforeBindings, {"{"}, 1), LAMBDA first :
        IF first > Len(beforeBindings) THEN <<>>
        ELSE Let(CHOOSE b \in first..Len(beforeBindings) :
                    /\ beforeBindings[b] = "{"
                    /\ \A k \in (b + 1)..Len(beforeBindings) : beforeBindings[k] # "{",
             LAMBDA b :
             Let(LastNonSpace(beforeBindings, b - 1), LAMBDA j :
                 IF j = 0 \/ ~IsWord(beforeBindings[j]) THEN <<>>
                 ELSE <<SubSeq(beforeBindings, WordStart(beforeBindings, j), j)>>)))

\* beforeBindings.match(/(\w+)\s*\{[^{}]*$/): <<name>>, <<>> for null
LayerMatch(beforeBindings) ==
    Let(LastBrace(beforeBindings, Len(beforeBindings)), LAMBDA b :
        IF b = 0 \/ beforeBindings[b] # "{" THEN <<>>
        ELSE Let(LastNonSpace(beforeBindings, b - 1), LAMBDA j :
             IF j = 0 \/ ~IsWord(beforeBindings[j]) THEN <<>>
             ELSE <<SubSeq(beforeBindings, WordStart(beforeBindings, j), j)>>))

RECURSIVE LayerLoop(_, _, _)
\* the while loop over the matches of bindingsPattern
LayerLoop(keymapContent, lastIndex, result) ==
    Let(ExecBindings(keymapContent, lastIndex), LAMBDA bindingsMatch :
        IF result.thrown \/ bindingsMatch = <<>> THEN result
        ELSE Let(LayerMatch(SubSeq(keymapContent, 1, bindingsMatch[1] - 1)),
             LAMBDA layerMatch :
             IF layerMatch = <<>>
             THEN LayerLoop(keymapContent, bindingsMatch[3] + 1, result)
             ELSE Let(parseBindings(SubSeq(keymapContent, bindingsMatch[2] + 1,
                                           bindingsMatch[3] - 1)),
                  LAMBDA parsed :
                  LayerLoop(keymapContent, bindingsMatch[3] + 1,
                            IF parsed.thrown
                            THEN [layers |-> <<>>, thrown |-> TRUE]
                            ELSE [result EXCEPT !.layers =
                                     Append(@, [name |-> layerMatch[1],
                                                keys |-> parsed.keys])]))))

NoLayers == [layers |-> <<>>, thrown |-> FALSE]

parseZmkKeymap(content) ==
    Let(SearchKeymap(content), LAMBDA keymapStart :
        IF keymapStart = 0 THEN NoLayers
        ELSE Let(BraceLoop(content, keymapStart, 0, FALSE), LAMBDA closing :
             IF closing = 0 THEN NoLayers
             ELSE LayerLoop(SubSeq(content, IndexOfAny(content, {"{"}, keymapStart) + 1,
                                   closing - 1),
                            1, NoLayers)))

---------------------------------------------------------------------------
(* Keymap files *)

\* keymap {
OpenKeymap == KwKeymap \o <<" ", "{">>
\* base {
OpenLayer == <<"b", "a", "s", "e", " ", "{">>
\* bindings = <&kp A>;
KpBindings == KwBindings \o <<" ", "=", " ", "<">> \o KpA \o <<">", ";">>
\* };
CloseBlock == <<"}", ";">>
\* lo { bindings = <&mo 1 &kp>; sensor-bindings=<&Macro>; };
WholeLayer ==
    <<"l", "o", " ", "{", " ">> \o KwBindings \o <<" ", "=", " ", "<">> \o MoExpr
       \o <<" ">> \o KpBare \o <<">", ";", " ", "s", "e", "n", "s", "o", "r", "-">>
       \o KwBindings \o <<"=", "<">> \o MacroExpr \o <<">", ";", " ", "}", ";">>
\* bindings = <&caps_word
OpenBindings == KwBindings \o <<" ", "=", " ", "<">> \o CapsWordExpr

FragmentPool == {OpenKeymap, OpenLayer, KpBindings, CloseBlock, WholeLayer, OpenBindings}

MaxFragments == 4

RECURSIVE Joined(_)
\* the fragments, one blank between two
Joined(fs) ==
    IF fs = <<>> THEN <<>>
    ELSE IF Len(fs) = 1 THEN fs[1]
    ELSE fs[1] \o <<" ">> \o Joined(Tail(fs))

ZmkInit ==
    /\ fragments = <<>>
    /\ zmkText = <<>>
    /\ zmk = parseZmkKeymap(<<>>)

\* one more fragment in the file, and the import of the file
AddFragment(f) ==
    /\ Len(fragments) < MaxFragments
    /\ fragments' = Append(fragments, f)
    /\ zmkText' = Joined(fragments')
    /\ zmk' = parseZmkKeymap(zmkText')
    /\ UNCHANGED exceptZmk

AddSomeFragment == \E f \in FragmentPool : AddFragment(f)

---------------------------------------------------------------------------
(* C14: one layer for each bindings list of the keymap block *)

\* the number of characters c of s between indices a and b
CountIn(s, c, a, b) == Cardinality({k \in a..b : s[k] = c})

\* the keymap block of a file: the indices of its first character, of its
\* opening brace and of the brace that balances it; <<>> if there is none
KeymapBlock(s) ==
    LET starts == {i \in 1..Len(s) : KeymapAt(s, i)}
    IN  IF starts = {} THEN <<>>
        ELSE LET from == Least(starts)
                 open == Least({k \in from..Len(s) : s[k] = "{"})
                 ends == {j \in (open + 1)..Len(s) :
                            /\ s[j] = "}"
                            /\ CountIn(s, "{", open, j) = CountIn(s, "}", open, j)}
             IN  IF ends = {} THEN <<>> ELSE <<from, open, Least(ends)>>

\* the text between the braces of the keymap block
BlockContent(s) ==
    Let(KeymapBlock(s), LAMBDA kb :
        IF kb = <<>> THEN <<>> ELSE SubSeq(s, kb[2] + 1, kb[3] - 1))

RECURSIVE OccurrencesFrom(_, _)
\* the occurrences of `bindings = <...>` in s from index i on, left to right
OccurrencesFrom(s, i) ==
    Let(ExecBindings(s, i), LAMBDA occ :
        IF occ = <<>> THEN <<>> ELSE <<occ>> \o OccurrencesFrom(s, occ[3] + 1))

\* the identifier that stands, blanks apart, before the brace at index b
IdentifierBefore(s, b) ==
    LET before == {k \in 1..(b - 1) : ~IsSpace(s[k])}
    IN  IF before = {} THEN <<>>
        ELSE LET e == CHOOSE k \in before : \A j \in before : j <= k
                 word == {a \in 1..e : \A j \in a..e : IsWord(s[j])}
             IN  IF word = {} THEN <<>> ELSE SubSeq(s, Least(word), e)

\* the identifier of the nearest block of s that is open at index p
NearestEnclosing(s, p) ==
    LET open == {b \in 1..(p - 1) :
                   /\ s[b] = "{"
                   /\ CountIn(s, "{", b + 1, p - 1) = CountIn(s, "}", b + 1, p - 1)}
    IN  IF open = {} THEN <<>>
        ELSE IdentifierBefore(s, CHOOSE b \in open : \A j \in open : j <= b)

\* the identifier of the block opened by the last brace before index p, when
\* that brace is an opening one
OpenedJustBefore(s, p) ==
    LET braces == {b \in 1..(p - 1) : s[b] \in {"{", "}"}}
    IN  IF braces = {} THEN <<>>
        ELSE LET b == CHOOSE k \in braces : \A j \in braces : j <= k
             IN  IF s[b] = "{" THEN IdentifierBefore(s, b) ELSE <<>>

\* the layer an occurrence of the block content yields under the name given
LayerOf(kc, occ, name) ==
    [name |-> name, keys |-> parseBindings(SubSeq(kc, occ[2] + 1, occ[3] - 1)).keys]

HasName(layer) == layer.name # <<>>

\* C14 as stated: each occurrence of `bindings = <...>` inside the keymap
\* block yields one layer, named by the nearest enclosing `<identifier> {`;
\* what stands outside the block yields none.
C14_Original ==
    LET kb == KeymapBlock(zmkText)
        through == IF kb = <<>> THEN <<>> ELSE SubSeq(zmkText, 1, kb[3] - 1)
        occs == IF kb = <<>> THEN <<>> ELSE OccurrencesFrom(through, kb[2] + 1)
    IN  zmk.layers = [i \in 1..Len(occs) |->
                        LayerOf(through, occs[i], NearestEnclosing(through, occs[i][1]))]

\* C14 amended: an occurrence of `bindings = <...>` inside the keymap block
\* yields one layer when the last brace before it, within the block, opens a
\* block `<identifier> {`, and the layer has that identifier for name; any
\* other occurrence, inside or outside the keymap block, yields none.
C14_LayerPerNamedBindings ==
    LET kc == BlockContent(zmkText)
        occs == OccurrencesFrom(kc, 1)
    IN  zmk.layers = SelectSeq([i \in 1..Len(occs) |->
                                  LayerOf(kc, occs[i], OpenedJustBefore(kc, occs[i][1]))],
                               HasName)

\* a block with two bindings lists, followed in the keymap block by a bindings
\* list that stands in no block of its own: two layers for three occurrences
C14_Witness ==
    /\ fragments = <<OpenKeymap, WholeLayer, KpBindings, CloseBlock>>
    /\ Len(OccurrencesFrom(BlockContent(zmkText), 1)) = 3
    /\ Len(zmk.layers) = 2
    /\ zmk.layers[1].name = <<"l", "o">>
    /\ zmk.layers[2].keys = << <<"m", "a", "c", "r">> >>

---------------------------------------------------------------------------
(* C16: the importer does not throw *)

\* C16: the import of a file never throws; it returns no layers when the file
\* has no keymap block or the block has no bindings list.
C16_NeverThrows ==
    /\ ~zmk.thrown
    /\ (KeymapBlock(zmkText) = <<>> \/ OccurrencesFrom(BlockContent(zmkText), 1) = <<>>)
          => zmk.layers = <<>>

\* a keymap block that is not closed, with a bindings list, gave no layers
C16_Witness ==
    /\ fragments = <<OpenKeymap, OpenLayer, KpBindings, CloseBlock>>
    /\ KeymapBlock(zmkText) = <<>>
    /\ zmk = NoLayers

---------------------------------------------------------------------------
(* The layout store: generateLayoutId, saveCustomLayout, deleteCustomLayout *)

\* the ids of BUILTIN_LAYOUTS
BuiltinIds ==
    {<<"c", "o", "r", "n", "e", "-", "c", "o", "l", "e", "m", "a", "k", "-", "d", "h">>,
     <<"c", "o", "r", "n", "e", "-", "q", "w", "e", "r", "t", "y">>,
     <<"c", "o", "r", "n", "e", "-", "w", "o", "r", "k", "m", "a", "n">>,
     <<"c", "o", "r", "n", "e", "-", "d", "v", "o", "r", "a", "k">>,
     <<"e", "r", "g", "o", "d", "o", "x", "-", "q", "w", "e", "r", "t", "y">>,
     <<"s", "v", "a", "a", "l", "b", "o", "a", "r", "d", "-", "c", "o", "l", "e", "m", "a", "k", "-", "d", "h">>,
     <<"s", "t", "a", "n", "d", "a", "r", "d", "6", "0", "-", "q", "w", "e", "r", "t", "y">>}

\* own property names of Object.prototype that are made of a-z only: a lookup
\* of one of them in an object literal gives an inherited, truthy value
InheritedNames == {<<"c", "o", "n", "s", "t", "r", "u", "c", "t", "o", "r">>}

\* Variant of getLayout that looks in the custom layouts only.
getLayoutCustomOnly(id, custom) == id \in DOMAIN custom

\* getLayout(id) is not null: all[id] is truthy
getLayout(id, custom) ==
    id \in DOMAIN custom \/ id \in BuiltinIds \/ id \in InheritedNames

layoutExists(id, custom) == getLayout(id, custom)

RECURSIVE Dashed(_, _)
\* replace(/[^a-z0-9]+/g, '-') from index i on
Dashed(s, i) ==
    IF i > Len(s) THEN <<>>
    ELSE IF s[i] \in Range(LowerSeq) \cup Digits THEN <<s[i]>> \o Dashed(s, i + 1)
    ELSE IF i > 1 /\ s[i - 1] \notin Range(LowerSeq) \cup Digits THEN Dashed(s, i + 1)
    ELSE <<"-">> \o Dashed(s, i + 1)

\* replace(/^-|-$/g, '')
Undashed(s) ==
    Let(IF s # <<>> /\ s[1] = "-" THEN Tail(s) ELSE s, LAMBDA t :
        IF t # <<>> /\ t[Len(t)] = "-" THEN SubSeq(t, 1, Len(t) - 1) ELSE t)

\* the base of generateLayoutId
Slug(name) == Undashed(Dashed(ToLowerCase(name), 1))

RECURSIVE Decimal(_)
\* the decimal digits of a natural number
Decimal(n) ==
    IF n < 10 THEN <<<<"0", "1", "2", "3", "4", "5", "6", "7", "8", "9">>[n + 1]>>
    ELSE Decimal(n \div 10) \o Decimal(n % 10)

\* `${base}-${counter}`
Suffixed(base, counter) == base \o <<"-">> \o Decimal(counter)

RECURSIVE IdLoop(_, _, _, _)
\* the while loop of generateLayoutId
IdLoop(base, id, counter, custom) ==
    IF layoutExists(id, custom)
    THEN IdLoop(base, Suffixed(base, counter), counter + 1, custom)
    ELSE id

generateLayoutId(name, custom) == Let(Slug(name), LAMBDA base : IdLoop(base, base, 1, custom))

\* layouts[id] = { name, definition, custom: true }
saveCustomLayout(id, name, definition, custom) ==
    [x \in DOMAIN custom \cup {id} |->
        IF x = id THEN [name |-> name, definition |-> definition] ELSE custom[x]]

\* delete layouts[id]
deleteCustomLayout(id, custom) == [x \in DOMAIN custom \ {id} |-> custom[x]]

\* names a user gives a layout
NamePool ==
    {<<"C", "o", "r", "n", "e", " ", "Q", "W", "E", "R", "T", "Y">>,
     <<"M", "y", " ", "L", "a", "y", "o", "u", "t">>,
     <<"m", "y", " ", "l", "a", "y", "o", "u", "t", " ", "1">>,
     <<"C", "o", "n", "s", "t", "r", "u", "c", "t", "o", "r">>,
     <<"?", "!">>}

\* definition texts, told apart by a number
DefinitionPool == {1, 2}

MaxLayouts == 3

StoreInit ==
    /\ customLayouts = <<>>
    /\ lastId = <<>>

\* handleSave of a layout that is not the loaded one: a generated id
SaveNew(name, definition) ==
    /\ Cardinality(DOMAIN customLayouts) < MaxLayouts
    /\ lastId' = <<generateLayoutId(name, customLayouts)>>
    /\ customLayouts' = saveCustomLayout(lastId'[1], name, definition, customLayouts)
    /\ UNCHANGED exceptStore

SaveSomeLayout == \E name \in NamePool, definition \in DefinitionPool : SaveNew(name, definition)

DeleteLayout(id) ==
    /\ id \in DOMAIN customLayouts
    /\ customLayouts' = deleteCustomLayout(id, customLayouts)
    /\ lastId' = <<>>
    /\ UNCHANGED exceptStore

DeleteSomeLayout == \E id \in DOMAIN customLayouts : DeleteLayout(id)

---------------------------------------------------------------------------
(* C17: generated ids are fresh *)

\* the id is used by a built-in layout or a stored custom layout
InUse(id, custom) == id \in BuiltinIds \/ id \in DOMAIN custom

\* the step saves a layout of the given name under a generated id
SavedAs(name) ==
    /\ lastId' # <<>>
    /\ DOMAIN customLayouts' = DOMAIN customLayouts \cup {lastId'[1]}
    /\ customLayouts'[lastId'[1]].name = name

\* C17: the generated id is the slug of the name or the slug with the smallest
\* free counter for suffix; no built-in and no stored custom layout uses it,
\* and the save leaves every layout stored before as it was.
C17_GeneratedIdIsFresh ==
    [][\A name \in NamePool : SavedAs(name) =>
          /\ \/ lastId'[1] = Slug(name)
             \/ \E k \in 1..(MaxLayouts + 2) :
                   /\ lastId'[1] = Suffixed(Slug(name), k)
                   /\ \A j \in 1..(k - 1) : InUse(Suffixed(Slug(name), j), customLayouts)
          /\ ~InUse(lastId'[1], customLayouts)
          /\ \A id \in DOMAIN customLayouts : customLayouts'[id] = customLayouts[id]]_vars

\* the slug of the name was a built-in id and its first suffix was taken: the
\* layout was saved under the second suffix
C17_Witness ==
    /\ lastId = <<<<"c", "o", "r", "n", "e", "-", "q", "w", "e", "r", "t", "y", "-", "2">>>>
    /\ <<"c", "o", "r", "n", "e", "-", "q", "w", "e", "r", "t", "y", "-", "1">> \in DOMAIN customLayouts
    /\ customLayouts[lastId[1]].name = <<"C", "o", "r", "n", "e", " ", "Q", "W", "E", "R", "T", "Y">>

---------------------------------------------------------------------------
(* The typing engine: loadText, input, backspace, reset *)

\* state.text[state.position]: <<>> stands for undefined
Expected(st) ==
    IF st.position + 1 <= Len(st.text) THEN <<st.text[st.position + 1]>> ELSE <<>>

\* calculateWordIndex at a position
calculateWordIndex(t, position) ==
    Let(Len(Split(SubSeq(t, 1, IF position < Len(t) THEN position ELSE Len(t)), " ")),
        LAMBDA words : IF words - 1 > 0 THEN words - 1 ELSE 0)

loadText(t) ==
    [text |-> t, typed |-> <<>>, position |-> 0, errors |-> <<>>,
     isComplete |-> FALSE, wordIndex |-> 0]

\* Variant of input that stays on a character typed wrong.
inputStopsOnError(st, char) ==
    IF st.isComplete THEN st
    ELSE IF <<char>> # Expected(st)
    THEN [st EXCEPT !.errors = Append(@, [position |-> st.position,
                                          expected |-> Expected(st),
                                          actual |-> char])]
    ELSE [st EXCEPT !.typed = Append(@, char),
                    !.position = @ + 1,
                    !.wordIndex = calculateWordIndex(st.text, st.position + 1),
                    !.isComplete = st.position + 1 >= Len(st.text)]

input(st, char) ==
    IF st.isComplete THEN st
    ELSE [st EXCEPT
            !.errors = IF <<char>> # Expected(st)
                       THEN Append(@, [position |-> st.position,
                                       expected |-> Expected(st),
                                       actual |-> char])
                       ELSE @,
            !.typed = Append(@, char),
            !.position = @ + 1,
            !.wordIndex = calculateWordIndex(st.text, st.position + 1),
            !.isComplete = st.position + 1 >= Len(st.text)]

backspace(st) ==
    IF st.position > 0
    THEN [st EXCEPT !.position = @ - 1,
                    !.typed = SubSeq(@, 1, Len(@) - 1),
                    !.isComplete = FALSE,
                    !.wordIndex = calculateWordIndex(st.text, st.position - 1)]
    ELSE st

reset(st) == loadText(st.text)

\* practice texts
TextPool == {<<>>, <<"h", "i">>, <<"h", " ", "i">>}

\* characters typed
CharPool == {"h", "i", " "}

MaxErrors == 2

EngineInit == engine = loadText(<<>>)

LoadText(t) ==
    /\ engine' = loadText(t)
    /\ UNCHANGED exceptEngine

LoadSomeText == \E t \in TextPool : LoadText(t)

Input(char) ==
    /\ Len(engine.errors) < MaxErrors
    /\ engine' = input(engine, char)
    /\ UNCHANGED exceptEngine

InputSomeChar == \E char \in CharPool : Input(char)

Backspace ==
    /\ engine' = backspace(engine)
    /\ UNCHANGED exceptEngine

Reset ==
    /\ engine' = reset(engine)
    /\ UNCHANGED exceptEngine

---------------------------------------------------------------------------
(* C18: an input always advances *)

---------------------------------------------------------------------------
(* C19: backspace and the errors list *)

\* C19: backspace clears the error recorded at the position it steps back
\* over, so the errors list holds no error for a position at which the right
\* character now stands.
C19_BackspaceClearsError ==
    \A i \in 1..Len(engine.errors) :
       LET p == engine.errors[i].position
       IN  (p < engine.position /\ p < Len(engine.text)) =>
              engine.typed[p + 1] # engine.text[p + 1]

---------------------------------------------------------------------------
(* The session manager: startSession, endSession, clearHistory *)

\* createSession, the id and the timestamp drawn from a counter
createSession(n) == [id |-> n, timestamp |-> n, wpm |-> 0, isComplete |-> FALSE]

\* Object.assign(target, source)
ObjectAssign(target, source) ==
    [f \in DOMAIN target \cup DOMAIN source |->
        IF f \in DOMAIN source THEN source[f] ELSE target[f]]

\* storage.get(STORAGE_KEY) || []: <<>> stands for a storage without the key
loadSessions(store) == IF store = <<>> THEN <<>> ELSE store[1]

\* Variant of saveSessions that writes nothing.
saveSessionsSkipped(list, store) == store

\* storage.set(STORAGE_KEY, sessions)
saveSessions(list, store) == <<list>>

\* the statistics handed to endSession: none, or those of a finished session
StatsPool == {<<>>, [wpm |-> 50, isComplete |-> TRUE]}

MaxSessions == 4

\* a manager created on a storage that holds nothing
SessionsInit ==
    /\ stored = <<>>
    /\ sessions = loadSessions(stored)
    /\ activeSession = <<>>
    /\ nextId = 1

\* a new manager is created on the storage the last one wrote
CreateSessionManager ==
    /\ activeSession' = <<>>
    /\ sessions' = loadSessions(stored)
    /\ UNCHANGED <<stored, nextId>>
    /\ UNCHANGED exceptSessions

StartSession ==
    /\ nextId <= MaxSessions
    /\ activeSession' = <<createSession(nextId)>>
    /\ nextId' = nextId + 1
    /\ UNCHANGED <<sessions, stored>>
    /\ UNCHANGED exceptSessions

EndSession(stats) ==
    /\ IF activeSession = <<>>
       THEN UNCHANGED <<activeSession, sessions, stored>>
       ELSE /\ sessions' = Append(sessions, ObjectAssign(activeSession[1], stats))
            /\ stored' = saveSessions(sessions', stored)
            /\ activeSession' = <<>>
    /\ UNCHANGED nextId
    /\ UNCHANGED exceptSessions

EndSomeSession == \E stats \in StatsPool : EndSession(stats)

ClearHistory ==
    /\ sessions' = <<>>
    /\ stored' = saveSessions(sessions', stored)
    /\ UNCHANGED <<activeSession, nextId>>
    /\ UNCHANGED exceptSessions

---------------------------------------------------------------------------
(* C20: the stored sessions are the history *)

\* C20 as stated, its conclusion: the value stored under 'sessions' equals the
\* history of the manager.
C20_Original == stored = <<sessions>>

\* C20 amended: endSession with an active session appends that session, with
\* the statistics merged in, to the history once, writes the history to the
\* storage and leaves no session active; with no active session it changes
\* nothing. The stored value, read as the manager reads it (a storage without
\* the key giving the empty history), always equals the history.
C20_StoredIsHistory ==
    /\ [](loadSessions(stored) = sessions)
    /\ [][\A stats \in StatsPool : EndSession(stats) =>
             IF activeSession = <<>>
             THEN UNCHANGED <<sessions, stored, activeSession>>
             ELSE /\ Len(sessions') = Len(sessions) + 1
                  /\ SubSeq(sessions', 1, Len(sessions)) = sessions
                  /\ \A f \in DOMAIN stats : sessions'[Len(sessions')][f] = stats[f]
                  /\ \A f \in DOMAIN activeSession[1] \ DOMAIN stats :
                        sessions'[Len(sessions')][f] = activeSession[1][f]
                  /\ \A i \in 1..Len(sessions) : sessions[i].id # activeSession[1].id
                  /\ stored' = <<sessions'>>
                  /\ activeSession' = <<>>]_vars
    /\ [][ClearHistory => (sessions' = <<>> /\ stored' = << <<>> >>)]_vars

\* two sessions were ended on a storage that held nothing, the second with
\* statistics, and a third is active
C20_Witness ==
    /\ Len(sessions) = 2
    /\ sessions[1].id = 1 /\ sessions[1].wpm = 0
    /\ sessions[2].id = 2 /\ sessions[2].wpm = 50 /\ sessions[2].isComplete
    /\ stored = <<sessions>>
    /\ activeSession # <<>>

---------------------------------------------------------------------------
(* C27: the invariants of the typing engine *)

\* C27: in every reachable state of the typing engine, an empty text included,
\* 0 <= position <= text.length, typed.length = position, and isComplete only
\* if position = text.length.
C27_PositionWithinText ==
    /\ 0 <= engine.position
    /\ engine.position <= Len(engine.text)
    /\ Len(engine.typed) = engine.position
    /\ engine.isComplete => engine.position = Len(engine.text)

---------------------------------------------------------------------------
(* The reactive store: createStore, set, subscribe, notify *)

Wildcard == "*"

\* the keys that are set
StoreKeys == {"k", "j"}

\* the keys subscribed to
WatchedKeys == {"k", Wildcard}

\* state[key] of a key never set
Undefined == 0

\* the values that are set
StoreValues == {1, 2, 3}

\* the callbacks: "log" only takes the value, "bump" sets key k to 2 when it
\* is given 1 for key k, "once" calls its own unsubscribe function
Callbacks == {"log", "bump", "once"}

\* Set.prototype.add
SetAdd(list, cb) ==
    IF \E i \in 1..Len(list) : list[i] = cb THEN list ELSE Append(list, cb)

\* Set.prototype.delete
SetDelete(list, cb) ==
    IF \E i \in 1..Len(list) : list[i] = cb
    THEN Let(CHOOSE i \in 1..Len(list) : list[i] = cb, LAMBDA i :
             SubSeq(list, 1, i - 1) \o SubSeq(list, i + 1, Len(list)))
    ELSE list

\* the callbacks subscribed under sub in store st
Subscribed(st, sub) == IF sub = Wildcard THEN st.wild ELSE st.subs[sub]

\* subscribe(key, callback)
subscribe(st, sub, cb) ==
    IF sub = Wildcard
    THEN [st EXCEPT !.wild = SetAdd(@, cb)]
    ELSE [st EXCEPT !.subs[sub] = SetAdd(@, cb)]

\* the function subscribe(key, callback) returned, called
unsubscribe(st, sub, cb) ==
    IF sub = Wildcard
    THEN [st EXCEPT !.wild = SetDelete(@, cb)]
    ELSE [st EXCEPT !.subs[sub] = SetDelete(@, cb)]

RECURSIVE set(_, _, _)
RECURSIVE Callback(_, _, _, _, _)
RECURSIVE NotifyFrom(_, _, _, _, _)

\* Variant of notify that leaves out the wildcard subscribers.
notifyKeyOnly(st, key, value) ==
    IF key \in DOMAIN st.subs THEN NotifyFrom(st, key, key, value, 1) ELSE st

\* notify(key, value)
notify(st, key, value) ==
    Let(IF key \in DOMAIN st.subs THEN NotifyFrom(st, key, key, value, 1) ELSE st,
        LAMBDA after : NotifyFrom(after, Wildcard, key, value, 1))

\* the for-of loop over the callbacks subscribed under sub, from the i-th on;
\* the iteration sees the deletions made while it runs
NotifyFrom(st, sub, key, value, i) ==
    IF i > Len(Subscribed(st, sub)) THEN st
    ELSE Let(Subscribed(st, sub)[i], LAMBDA cb :
         Let(Callback(st, sub, cb, key, value), LAMBDA after :
             NotifyFrom(after, sub, key, value,
                        IF i <= Len(Subscribed(after, sub)) /\ Subscribed(after, sub)[i] = cb
                        THEN i + 1 ELSE i)))

\* one call of a callback, with what the callback does
Callback(st, sub, cb, key, value) ==
    Let([st EXCEPT !.log = Append(@, [cb |-> cb, sub |-> sub, key |-> key,
                                      value |-> value])],
        LAMBDA called :
        IF cb = "bump" /\ key = "k" /\ value = 1 THEN set(called, "k", 2)
        ELSE IF cb = "once" THEN unsubscribe(called, sub, cb)
        ELSE called)

\* set(key, value)
set(st, key, value) ==
    IF st.state[key] = value THEN st
    ELSE notify([st EXCEPT !.state[key] = value], key, value)

\* the store as one object
StoreObject == [state |-> storeState, subs |-> subscribers, wild |-> wildcardSubscribers,
                log |-> <<>>]

MaxSubscriptions == 3

StateInit ==
    /\ storeState = [key \in StoreKeys |-> Undefined]
    /\ subscribers = [sub \in WatchedKeys \ {Wildcard} |-> <<>>]
    /\ wildcardSubscribers = <<>>
    /\ delivered = <<>>

NumSubscriptions == Len(subscribers["k"]) + Len(wildcardSubscribers)

Subscribe(sub, cb) ==
    /\ NumSubscriptions < MaxSubscriptions
    /\ subscribers' = subscribe(StoreObject, sub, cb).subs
    /\ wildcardSubscribers' = subscribe(StoreObject, sub, cb).wild
    /\ delivered' = <<>>
    /\ UNCHANGED storeState
    /\ UNCHANGED exceptState

SubscribeSome == \E sub \in WatchedKeys, cb \in Callbacks : Subscribe(sub, cb)

Unsubscribe(sub, cb) ==
    /\ \E i \in 1..Len(Subscribed(StoreObject, sub)) : Subscribed(StoreObject, sub)[i] = cb
    /\ subscribers' = unsubscribe(StoreObject, sub, cb).subs
    /\ wildcardSubscribers' = unsubscribe(StoreObject, sub, cb).wild
    /\ delivered' = <<>>
    /\ UNCHANGED storeState
    /\ UNCHANGED exceptState

UnsubscribeSome == \E sub \in WatchedKeys, cb \in Callbacks : Unsubscribe(sub, cb)

SetValue(key, value) ==
    /\ delivered' = set(StoreObject, key, value).log
    /\ storeState' = set(StoreObject, key, value).state
    /\ subscribers' = set(StoreObject, key, value).subs
    /\ wildcardSubscribers' = set(StoreObject, key, value).wild
    /\ UNCHANGED exceptState

SetSomeValue == \E key \in StoreKeys, value \in StoreValues : SetValue(key, value)

---------------------------------------------------------------------------
(* C21: set notifies each subscriber once *)

\* the calls in log of callback cb subscribed under sub
CallsOf(log, sub, cb) == {i \in 1..Len(log) : log[i].sub = sub /\ log[i].cb = cb}

\* callback cb is subscribed under sub
IsSubscribed(subs, wild, sub, cb) ==
    IF sub = Wildcard
    THEN \E i \in 1..Len(wild) : wild[i] = cb
    ELSE \E i \in 1..Len(subs[sub]) : subs[sub][i] = cb

---------------------------------------------------------------------------
(* C29: the order in which subscribers receive values *)

\* C29: after all callbacks have returned, the last value each subscriber has
\* received for a key is the value stored for that key, also when a callback
\* calls set.
C29_LastValueIsStored ==
    \A sub \in WatchedKeys, cb \in Callbacks, key \in StoreKeys :
       LET mine == {i \in CallsOf(delivered, sub, cb) : delivered[i].key = key}
       IN  mine # {} =>
              delivered[CHOOSE i \in mine : \A j \in mine : j <= i].value = storeState[key]

---------------------------------------------------------------------------
(* The keyboard handler: createKeyboardHandler *)

KeyCtrl == <<"c", "t", "r", "l">>
KeyShift == <<"s", "h", "i", "f", "t">>
KeyAlt == <<"a", "l", "t">>
KeyMeta == <<"m", "e", "t", "a">>

\* key strings handlers are bound to
SlashKey == <<"/">>
HelpKey == <<"?">>
ShiftHelpKey == <<"s", "h", "i", "f", "t", "+", "?">>
EscapeKey == <<"E", "s", "c", "a", "p", "e">>
CtrlSKey == <<"c", "t", "r", "l", "+", "s">>

\* parseKeyString
parseKeyString(keyString) ==
    Let(Split(ToLowerCase(keyString), "+"), LAMBDA parts :
        Let(SubSeq(parts, 1, Len(parts) - 1), LAMBDA mods :
            [key |-> parts[Len(parts)],
             ctrl |-> \E i \in 1..Len(mods) : mods[i] = KeyCtrl,
             shift |-> \E i \in 1..Len(mods) : mods[i] = KeyShift,
             alt |-> \E i \in 1..Len(mods) : mods[i] = KeyAlt,
             meta |-> \E i \in 1..Len(mods) : mods[i] = KeyMeta]))

\* matchesKey
matchesKey(event, keyDef) ==
    /\ ToLowerCase(event.key) = keyDef.key
    /\ event.ctrlKey = keyDef.ctrl
    /\ event.shiftKey = keyDef.shift
    /\ event.altKey = keyDef.alt
    /\ event.metaKey = keyDef.meta

\* Object.entries(handlers).map(...): the compiled definitions, in the order
\* of the entries; a handler is named by its context and its key string
Compiled(handlers, context) ==
    [i \in 1..Len(handlers) |->
        [def |-> parseKeyString(handlers[i].on),
         handler |-> [context |-> context, on |-> handlers[i].on],
         does |-> handlers[i].does]]

\* the handlers given to createKeyboardHandler: context 0
GlobalHandlers ==
    Compiled(<<[on |-> SlashKey, does |-> "open"], [on |-> HelpKey, does |-> "help"],
               [on |-> CtrlSKey, does |-> "save"]>>, 0)

\* the handler objects given to pushContext: a modal whose Escape handler pops
\* the context, and a menu
ContextPool ==
    {<<[on |-> EscapeKey, does |-> "pop"], [on |-> SlashKey, does |-> "none"]>>,
     <<[on |-> ShiftHelpKey, does |-> "none"], [on |-> EscapeKey, does |-> "none"]>>}

\* the keydown events: [key, ctrlKey, shiftKey, altKey, metaKey, input], input
\* telling whether the target is an input element
KeyEvent(k, c, s, target) ==
    [key |-> k, ctrlKey |-> c, shiftKey |-> s, altKey |-> FALSE, metaKey |-> FALSE,
     input |-> target]

EventPool ==
    {KeyEvent(SlashKey, FALSE, FALSE, FALSE), KeyEvent(SlashKey, FALSE, FALSE, TRUE),
     KeyEvent(HelpKey, FALSE, TRUE, FALSE), KeyEvent(HelpKey, FALSE, FALSE, FALSE),
     KeyEvent(EscapeKey, FALSE, FALSE, FALSE), KeyEvent(<<"S">>, TRUE, FALSE, FALSE),
     KeyEvent(<<"a">>, FALSE, FALSE, FALSE)}

\* the first definition of defs that matches the event, <<>> for none
FirstMatch(defs, event) ==
    Let({i \in 1..Len(defs) : matchesKey(event, defs[i].def)}, LAMBDA S :
        IF S = {} THEN <<>> ELSE <<defs[Least(S)]>>)

RECURSIVE OldestContextMatch(_, _, _)
\* Variant of ContextMatch that goes through the stack from its oldest context.
OldestContextMatch(stack, event, i) ==
    IF i < 1 THEN <<>>
    ELSE Let(FirstMatch(stack[Len(stack) + 1 - i], event), LAMBDA found :
             IF found # <<>> THEN found ELSE OldestContextMatch(stack, event, i - 1))

RECURSIVE ContextMatch(_, _, _)
\* the loop over the context stack, from context i down
ContextMatch(stack, event, i) ==
    IF i < 1 THEN <<>>
    ELSE Let(FirstMatch(stack[i], event), LAMBDA found :
             IF found # <<>> THEN found ELSE ContextMatch(stack, event, i - 1))

\* Variant of StackMatch that tries the oldest context first.
StackMatchOldestFirst(stack, event) == OldestContextMatch(stack, event, Len(stack))

\* for (let i = contextStack.length - 1; i >= 0; i--)
StackMatch(stack, event) == ContextMatch(stack, event, Len(stack))

\* handleKeyDown: the definition whose handler is called, <<>> for none
handleKeyDown(stack, event) ==
    IF event.input THEN <<>>
    ELSE Let(StackMatch(stack, event), LAMBDA found :
             IF found # <<>> THEN found ELSE FirstMatch(GlobalHandlers, event))

MaxPushes == 3

KeysInit ==
    /\ contextStack = <<>>
    /\ pushed = 0
    /\ listening = TRUE
    /\ invoked = <<>>

PushContext(handlers) ==
    /\ pushed < MaxPushes
    /\ pushed' = pushed + 1
    /\ contextStack' = Append(contextStack, Compiled(handlers, pushed'))
    /\ invoked' = <<>>
    /\ UNCHANGED listening
    /\ UNCHANGED exceptKeys

PushSomeContext == \E handlers \in ContextPool : PushContext(handlers)

PopContext ==
    /\ contextStack' = SubSeq(contextStack, 1, Len(contextStack) - 1)
    /\ invoked' = <<>>
    /\ UNCHANGED <<pushed, listening>>
    /\ UNCHANGED exceptKeys

\* document.removeEventListener('keydown', handleKeyDown)
Deactivate ==
    /\ listening' = FALSE
    /\ invoked' = <<>>
    /\ UNCHANGED <<pushed, contextStack>>
    /\ UNCHANGED exceptKeys

\* document.addEventListener('keydown', handleKeyDown)
Activate ==
    /\ listening' = TRUE
    /\ invoked' = <<>>
    /\ UNCHANGED <<pushed, contextStack>>
    /\ UNCHANGED exceptKeys

\* a keydown event on the document, and what the handler called does
KeyDown(event) ==
    /\ invoked' = (IF listening
                   THEN [i \in 1..Len(handleKeyDown(contextStack, event)) |->
                           handleKeyDown(contextStack, event)[i].handler]
                   ELSE <<>>)
    /\ contextStack' =
          (IF listening /\ handleKeyDown(contextStack, event) # <<>>
              /\ handleKeyDown(contextStack, event)[1].does = "pop"
           THEN SubSeq(contextStack, 1, Len(contextStack) - 1)
           ELSE contextStack)
    /\ UNCHANGED <<pushed, listening>>
    /\ UNCHANGED exceptKeys

SomeKeyDown == \E event \in EventPool : KeyDown(event)

---------------------------------------------------------------------------
(* C22: one handler per keydown, the newest binding context first *)

\* what a key string means: the events it binds
Binds(on, event) ==
    /\ ~event.altKey /\ ~event.metaKey
    /\ \/ on = SlashKey /\ event.key = SlashKey /\ ~event.ctrlKey /\ ~event.shiftKey
       \/ on = HelpKey /\ event.key = HelpKey /\ ~event.ctrlKey /\ ~event.shiftKey
       \/ on = ShiftHelpKey /\ event.key = HelpKey /\ ~event.ctrlKey /\ event.shiftKey
       \/ on = EscapeKey /\ event.key = EscapeKey /\ ~event.ctrlKey /\ ~event.shiftKey
       \/ on = CtrlSKey /\ event.key \in {<<"s">>, <<"S">>} /\ event.ctrlKey
          /\ ~event.shiftKey

\* the positions of the handlers of a compiled context that bind the event
Binding(defs, event) == {j \in 1..Len(defs) : Binds(defs[j].handler.on, event)}

\* the contexts on the stack that bind the event
BindingContexts(event) ==
    {i \in 1..Len(contextStack) : Binding(contextStack[i], event) # {}}

Newest(S) == CHOOSE i \in S : \A j \in S : j <= i

\* the handlers the claim expects a keydown event to invoke
ExpectedHandlers(event) ==
    IF ~listening \/ event.input THEN <<>>
    ELSE IF BindingContexts(event) # {}
    THEN <<contextStack[Newest(BindingContexts(event))]
              [Least(Binding(contextStack[Newest(BindingContexts(event))], event))].handler>>
    ELSE IF Binding(GlobalHandlers, event) # {}
    THEN <<GlobalHandlers[Least(Binding(GlobalHandlers, event))].handler>>
    ELSE <<>>

\* C22: a keydown event invokes at most one handler: the matching handler of
\* the most recently pushed context still on the stack that binds the key,
\* otherwise the matching global handler; a handler of a context that was
\* popped (one no longer on the stack) is never invoked.
C22_OneHandlerNewestContextFirst ==
    [][\A event \in EventPool : KeyDown(event) =>
          /\ Len(invoked') <= 1
          /\ invoked' = ExpectedHandlers(event)
          /\ \A i \in 1..Len(invoked') :
                \/ invoked'[i].context = 0
                \/ \E k \in 1..Len(contextStack) :
                      contextStack[k][1].handler.context = invoked'[i].context]_vars

\* two contexts bind Escape and a third was pushed and popped: the keydown of
\* Escape invoked the handler of the second context only
C22_Witness ==
    /\ pushed = 3
    /\ Len(contextStack) = 2
    /\ contextStack[1][1].handler = [context |-> 1, on |-> EscapeKey]
    /\ contextStack[2][2].handler = [context |-> 2, on |-> EscapeKey]
    /\ invoked = <<[context |-> 2, on |-> EscapeKey]>>

---------------------------------------------------------------------------
(* The command menu: createCommandMenu *)

\* the commands of the menu: label, keywords and the action each one runs
Commands ==
    <<[label |-> <<"R", "u", "n">>, keywords |-> <<"g", "o">>, action |-> "practice"],
      [label |-> <<"G", "o", " ", "t", "o">>, keywords |-> <<>>, action |-> "lessons"],
      [label |-> <<"S", "t", "a", "t", "s">>, keywords |-> <<"r", "u", "n">>, action |-> "stats"],
      [label |-> <<"L", "a", "y", "o", "u", "t">>, keywords |-> <<"g", "o">>, action |-> "layout"]>>

\* the queries typed into the menu
QueryPool ==
    {<<>>, <<"g", "o">>, <<"R", "U", "N">>, <<"s">>, <<"z", "z">>, <<"n", " ", "g">>, <<"o", " ", "t">>, <<"T">>, <<"a">>}

DeltaPool == {-2, -1, 1, 2}

\* String.prototype.includes
StringIncludes(s, sub) ==
    \E i \in 0..(Len(s) - Len(sub)) : SubSeq(s, i + 1, i + Len(sub)) = sub

MathMin(a, b) == IF a <= b THEN a ELSE b

MathMax(a, b) == IF a >= b THEN a ELSE b

\* `${cmd.label} ${cmd.keywords || ''}`.toLowerCase()
SearchText(cmd) == ToLowerCase(cmd.label \o <<" ">> \o cmd.keywords)

\* commands.filter(...): the positions in Commands that are kept
Filtered(query) ==
    IF query = <<>> THEN [i \in 1..Len(Commands) |-> i]
    ELSE SelectSeq([i \in 1..Len(Commands) |-> i],
                   LAMBDA i : StringIncludes(SearchText(Commands[i]), ToLowerCase(query)))

\* Variant of filterCommands that leaves selectedIndex as it is.
filterCommandsKeepIndex(mn) == [mn EXCEPT !.filteredCommands = Filtered(mn.query)]

\* filterCommands
filterCommands(mn) ==
    Let(Filtered(mn.query), LAMBDA kept :
        [mn EXCEPT !.filteredCommands = kept,
                   !.selectedIndex = MathMin(mn.selectedIndex, MathMax(0, Len(kept) - 1))])

\* open
open(mn) ==
    IF mn.isOpen THEN mn
    ELSE filterCommands([mn EXCEPT !.isOpen = TRUE, !.query = <<>>, !.selectedIndex = 0])

\* close
close(mn) == [mn EXCEPT !.isOpen = FALSE]

\* moveSelection
moveSelection(mn, delta) ==
    [mn EXCEPT !.selectedIndex =
        MathMax(0, MathMin(Len(mn.filteredCommands) - 1, mn.selectedIndex + delta))]

\* setQuery
setQuery(mn, q) == filterCommands([mn EXCEPT !.query = q])

\* const cmd = filteredCommands[selectedIndex]: <<>> for undefined
CurrentCommand(mn) ==
    IF mn.selectedIndex + 1 \in 1..Len(mn.filteredCommands)
    THEN <<Commands[mn.filteredCommands[mn.selectedIndex + 1]]>>
    ELSE <<>>

MenuInit ==
    /\ menu = [isOpen |-> FALSE, query |-> <<>>, selectedIndex |-> 0,
               filteredCommands |-> [i \in 1..Len(Commands) |-> i]]
    /\ ran = <<>>

Open ==
    /\ menu' = open(menu)
    /\ UNCHANGED ran
    /\ UNCHANGED exceptMenu

Close ==
    /\ menu' = close(menu)
    /\ UNCHANGED ran
    /\ UNCHANGED exceptMenu

SetQuery(q) ==
    /\ menu' = setQuery(menu, q)
    /\ UNCHANGED ran
    /\ UNCHANGED exceptMenu

SetSomeQuery == \E q \in QueryPool : SetQuery(q)

MoveSelection(delta) ==
    /\ menu' = moveSelection(menu, delta)
    /\ UNCHANGED ran
    /\ UNCHANGED exceptMenu

MoveSomeSelection == \E delta \in DeltaPool : MoveSelection(delta)

\* selectCurrent; ran holds the actions this call ran
SelectCurrent ==
    /\ menu' = (IF CurrentCommand(menu) # <<>> THEN close(menu) ELSE menu)
    /\ ran' = [i \in 1..Len(CurrentCommand(menu)) |-> CurrentCommand(menu)[i].action]
    /\ UNCHANGED exceptMenu

---------------------------------------------------------------------------
(* C30: the selected index stays within the commands matching the query *)

\* a command matches a query when the query, letter case aside, occurs in its
\* label, a space and its keywords
Matches(cmd, query) ==
    \E i \in 0..Len(cmd.label \o <<" ">> \o cmd.keywords) :
        /\ i + Len(query) <= Len(cmd.label \o <<" ">> \o cmd.keywords)
        /\ \A j \in 1..Len(query) :
              ToLowerChar((cmd.label \o <<" ">> \o cmd.keywords)[i + j])
                 = ToLowerChar(query[j])

Matching(query) == {i \in 1..Len(Commands) : Matches(Commands[i], query)}

\* C30: the selected index lies between 0 and max(0, n - 1), n being the number
\* of commands matching the current query; and selectCurrent runs either the
\* action of one command matching the query or, when none matches, nothing.
C30_SelectedIndexWithinMatches ==
    [][/\ menu'.selectedIndex >= 0
       /\ menu'.selectedIndex <= MathMax(0, Cardinality(Matching(menu'.query)) - 1)
       /\ SelectCurrent =>
             IF Matching(menu.query) = {} THEN ran' = <<>>
             ELSE \E i \in Matching(menu.query) : ran' = <<Commands[i].action>>]_vars

\* a query that one command matches was set and selectCurrent ran that command
C30_Witness ==
    /\ menu.query = <<"o", " ", "t">>
    /\ menu.selectedIndex = 0
    /\ ~menu.isOpen
    /\ ran = <<"lessons">>

---------------------------------------------------------------------------
(* The application: router, global keyboard handler and practice views *)

HomePath == <<"/">>
PracticePath == <<"/", "p", "r", "a", "c", "t", "i", "c", "e">>
LessonsPath == <<"/", "l", "e", "s", "s", "o", "n", "s">>
UnknownPath == <<"/", "x">>

\* the routes given to createRouter and what their handlers render
Routes ==
    <<[path |-> HomePath, renders |-> "home"],
      [path |-> PracticePath, renders |-> "practice"],
      [path |-> LessonsPath, renders |-> "view"]>>

\* the paths of the command menu's actions, and those a user can put in the
\* address bar
CommandPaths == {PracticePath, LessonsPath}
AddressPaths == {HomePath, PracticePath, LessonsPath, UnknownPath}

\* the application as one value
AppObject ==
    [hash |-> hash, hashEvents |-> hashEvents, currentRoute |-> currentRoute,
     handlerActive |-> handlerActive, practiceViews |-> practiceViews,
     runs |-> runs, navigations |-> navigations]

\* window.location.hash, read
LocationHash(ap) == IF ap.hash = <<>> THEN <<>> ELSE <<"#">> \o ap.hash

\* window.location.hash = path: the fragment is replaced and, when this
\* changes it, the browser queues a hashchange event
SetLocationHash(ap, path, nav) ==
    Let(IF path # <<>> /\ path[1] = "#" THEN Tail(path) ELSE path, LAMBDA fragment :
        [ap EXCEPT !.hash = fragment,
                   !.hashEvents = IF fragment = ap.hash THEN @
                                  ELSE Append(@, [nav |-> nav])])

\* renderPracticeView: the global handler is deactivated, and a new practice
\* view is created, which starts listening
renderPracticeView(ap) ==
    [ap EXCEPT !.handlerActive = FALSE,
               !.practiceViews = Append(@, [isActive |-> TRUE, listening |-> TRUE])]

\* the route handler of a route
RouteHandler(ap, route) ==
    IF route.renders = "practice" THEN renderPracticeView(ap) ELSE ap

\* matchAndExecute; runs records each route handler run and the navigation it
\* was run for
matchAndExecute(ap, path, nav) ==
    Let({i \in 1..Len(Routes) : Routes[i].path = path}, LAMBDA S :
        IF S # {}
        THEN RouteHandler([ap EXCEPT !.currentRoute = path,
                                     !.runs = Append(@, [path |-> path, nav |-> nav])],
                          Routes[Least(S)])
        ELSE [ap EXCEPT !.currentRoute = path])

\* navigate
navigate(ap, path) ==
    Let(ap.navigations + 1, LAMBDA nav :
        matchAndExecute(SetLocationHash([ap EXCEPT !.navigations = nav], path, nav),
                        path, nav))

\* handleHashChange, for the oldest queued hashchange event
handleHashChange(ap) ==
    Let(Tail(LocationHash(ap)), LAMBDA sliced :
        matchAndExecute([ap EXCEPT !.hashEvents = Tail(@)],
                        IF sliced = <<>> THEN HomePath ELSE sliced,
                        ap.hashEvents[1].nav))

\* exit of practice view i: destroy, then onExit, which activates the global
\* handler and navigates home
exit(ap, i) ==
    navigate([ap EXCEPT !.practiceViews[i] = [isActive |-> FALSE, listening |-> FALSE],
                        !.handlerActive = TRUE],
             HomePath)

RECURSIVE EscapeFrom(_, _)
\* a keydown of Escape, given to the listeners in the order they were added
EscapeFrom(ap, i) ==
    IF i > Len(ap.practiceViews) THEN ap
    ELSE EscapeFrom(IF ap.practiceViews[i].listening /\ ap.practiceViews[i].isActive
                    THEN exit(ap, i) ELSE ap,
                    i + 1)

MaxNavigations == 3

\* initApp, opened without a fragment: createRouter runs the handler of '/'
AppInit ==
    /\ hash = <<>>
    /\ hashEvents = <<>>
    /\ currentRoute = HomePath
    /\ handlerActive = TRUE
    /\ practiceViews = <<>>
    /\ runs = <<[path |-> HomePath, nav |-> 0]>>
    /\ navigations = 0

\* the application after a step
AppBecomes(after) ==
    /\ hash' = after.hash
    /\ hashEvents' = after.hashEvents
    /\ currentRoute' = after.currentRoute
    /\ handlerActive' = after.handlerActive
    /\ practiceViews' = after.practiceViews
    /\ runs' = after.runs
    /\ navigations' = after.navigations
    /\ UNCHANGED exceptApp

\* a command of the command menu, opened by the global handler, navigates
Navigate(path) ==
    /\ handlerActive
    /\ navigations < MaxNavigations
    /\ AppBecomes(navigate(AppObject, path))

NavigateSomewhere == \E path \in CommandPaths : Navigate(path)

\* the user changes the fragment in the address bar, or goes back
ChangeHash(path) ==
    /\ navigations < MaxNavigations
    /\ path # hash
    /\ AppBecomes(SetLocationHash([AppObject EXCEPT !.navigations = navigations + 1],
                                  path, navigations + 1))

ChangeSomeHash == \E path \in AddressPaths : ChangeHash(path)

\* the browser delivers the oldest queued hashchange event
HashChange ==
    /\ hashEvents # <<>>
    /\ AppBecomes(handleHashChange(AppObject))

\* the user presses Escape while a practice view listens
Escape ==
    /\ \E i \in 1..Len(practiceViews) : practiceViews[i].listening
    /\ AppBecomes(EscapeFrom(AppObject, 1))

---------------------------------------------------------------------------
(* C23, C26: route handlers and key listeners of the application *)

\* C23: each navigation runs the matched route handler exactly once: no route
\* handler is run a second time for the same navigation and the same path,
\* be it by navigate or by the hashchange event its write to location.hash
\* caused.
C23_HandlerRunsOncePerNavigation ==
    \A i, j \in 1..Len(runs) :
        (runs[i].nav = runs[j].nav /\ runs[i].path = runs[j].path) => i = j

\* the practice views that listen for keydown
ListeningViews == {i \in 1..Len(practiceViews) : practiceViews[i].listening}

\* C26: exactly one component listens for key presses: on the route /practice
\* one practice view and not the global keyboard handler, on every other
\* route the global keyboard handler and no practice view.
C26_OneComponentListens ==
    IF currentRoute = PracticePath
    THEN Cardinality(ListeningViews) = 1 /\ ~handlerActive
    ELSE ListeningViews = {} /\ handlerActive

---------------------------------------------------------------------------
(* The practice view: createPracticeView *)

\* createStatisticsTracker
createStatisticsTracker ==
    [running |-> FALSE, totalChars |-> 0, correctChars |-> 0, errorChars |-> 0]

\* recordInput
recordInput(tracker, correct) ==
    [tracker EXCEPT !.totalChars = @ + 1,
                    !.correctChars = IF correct THEN @ + 1 ELSE @,
                    !.errorChars = IF correct THEN @ ELSE @ + 1]

\* getStats: the counts of the statistics
getStats(tracker) ==
    [totalChars |-> tracker.totalChars, correctChars |-> tracker.correctChars,
     errorChars |-> tracker.errorChars]

\* init: a new engine with the practice text loaded, a new statistics tracker,
\* the view rendered anew; inputs counts the calls of engine.input that typed a
\* character, completed holds the statistics the completion screen shows
init(vw, t) ==
    [vw EXCEPT !.engine = loadText(t),
               !.stats = createStatisticsTracker,
               !.inputs = 0,
               !.completed = <<>>,
               !.isActive = TRUE]

\* destroy
destroy(vw) == [vw EXCEPT !.isActive = FALSE, !.listening = FALSE]

\* activate
activate(vw) == [vw EXCEPT !.isActive = TRUE, !.listening = TRUE]

\* deactivate
deactivate(vw) == [vw EXCEPT !.isActive = FALSE, !.listening = FALSE]

\* restart
restart(vw, t) == init(destroy(vw), t)

\* createPracticeView: init(); activate()
createPracticeView(t) ==
    activate(init([isActive |-> FALSE, listening |-> FALSE, engine |-> loadText(<<>>),
                   stats |-> createStatisticsTracker, inputs |-> 0,
                   completed |-> <<>>], t))

\* handleInput
handleInput(vw, correct) == [vw EXCEPT !.stats = recordInput(@, correct)]

\* handleComplete
handleComplete(vw) ==
    [vw EXCEPT !.stats.running = FALSE,
               !.completed = <<getStats(vw.stats)>>]

\* engine.input with the callbacks of the view: onComplete is called at
\* completion, then onInput
EngineInput(vw, char) ==
    IF vw.engine.isComplete THEN vw
    ELSE Let([vw EXCEPT !.engine = input(@, char), !.inputs = @ + 1], LAMBDA typed :
             handleInput(IF typed.engine.isComplete THEN handleComplete(typed) ELSE typed,
                         <<char>> = Expected(vw.engine)))

\* handleKeyDown of the view, for a key of the document
ViewKeyDown(vw, key) ==
    IF ~vw.listening \/ ~vw.isActive THEN vw
    ELSE Let([vw EXCEPT !.stats.running = TRUE], LAMBDA started :
             IF key = "Escape" THEN destroy(started)
             ELSE IF key = "Backspace"
             THEN [started EXCEPT !.engine = backspace(@)]
             ELSE EngineInput(started, key))

\* the texts the word generator makes
PracticeTexts == TextPool \ {<<>>}

KeyPool == CharPool \cup {"Escape", "Backspace"}

MaxKeys == 4

PracticeInit == view = createPracticeView(<<"h", "i">>)

CreatePracticeView(t) ==
    /\ view' = createPracticeView(t)
    /\ UNCHANGED exceptPractice

CreateSomePracticeView == \E t \in PracticeTexts : CreatePracticeView(t)

PressKey(key) ==
    /\ view.inputs < MaxKeys
    /\ view' = ViewKeyDown(view, key)
    /\ UNCHANGED exceptPractice

PressSomeKey == \E key \in KeyPool : PressKey(key)

Restart(t) ==
    /\ view' = restart(view, t)
    /\ UNCHANGED exceptPractice

RestartSome == \E t \in PracticeTexts : Restart(t)

ActivateView ==
    /\ view' = activate(view)
    /\ UNCHANGED exceptPractice

DeactivateView ==
    /\ view' = deactivate(view)
    /\ UNCHANGED exceptPractice

---------------------------------------------------------------------------
(* C24, C25: completion statistics and restart of the practice view *)

\* C24: the statistics read by the completion handler count every character
\* typed: once the text is complete, the totalChars passed to onComplete and
\* shown on the completion screen equals the number of input calls made.
C24_CompletionCountsEveryKey ==
    (view.engine.isComplete /\ view.completed # <<>>) =>
        view.completed[1].totalChars = view.inputs

\* C25: after restart() the view listens for keydown again, so that a
\* printable key press reaches the new typing engine.
C25_RestartListensAgain ==
    [][\A t \in PracticeTexts : Restart(t) => view'.listening /\ view'.isActive]_vars

---------------------------------------------------------------------------
(* The ZMK import: generateLayoutFromKeys *)

\* labels the ZMK importer produces: A, N1, &trans, PIPE, SPACE
LabelPool == {<<"a">>, <<"1">>, <<"_">>, <<"|">>, <<"s", "p", "c">>}

\* Math.ceil(a / b) for b > 0
CeilDiv(a, b) == -((-a) \div b)

\* the shape detected from the number of keys
Geometry(count) ==
    IF count = 36 THEN [rows |-> 3, cols |-> 5, thumbCount |-> 3]
    ELSE IF count = 42 THEN [rows |-> 3, cols |-> 6, thumbCount |-> 3]
    ELSE IF count = 48 THEN [rows |-> 4, cols |-> 6, thumbCount |-> 4]
    ELSE Let(MathMax(2, count \div 10), LAMBDA thumbCount :
             [rows |-> 3, cols |-> CeilDiv(count - thumbCount * 2, 3 * 2),
              thumbCount |-> thumbCount])

\* the head of the layout text
GeometryHeader(g) ==
    LayoutTag \o <<"z", "m", "k", "-", "i", "m", "p", "o", "r", "t", "]", "\n">>
    \o KwRows \o <<":", " ">> \o Decimal(g.rows) \o <<"\n">>
    \o KwColumns \o <<":", " ">> \o Decimal(g.cols) \o <<",">> \o Decimal(g.cols) \o <<"\n">>
    \o KwThumb \o <<":", " ">> \o Decimal(g.thumbCount) \o <<",">> \o Decimal(g.thumbCount)
    \o <<"\n">>
    \o KwSplit \o <<":", " ">> \o KwTrue \o <<"\n">>
    \o KwStagger \o <<":", " ">> \o KwNone \o <<"\n", "\n">>

\* up to n keys from keyIndex (counted from 0) on
TakeKeys(keys, keyIndex, n) ==
    SubSeq(keys, keyIndex + 1, MathMin(Len(keys), keyIndex + n))

\* one line of keys: `${name}: ${left.join(' ')} | ${right.join(' ')}\n`, the
\* left keys then the right keys taken from keyIndex on, n for each hand
HandsLine(name, keys, keyIndex, n) ==
    Let(TakeKeys(keys, keyIndex, n), LAMBDA leftKeys :
    Let(TakeKeys(keys, keyIndex + Len(leftKeys), n), LAMBDA rightKeys :
        name \o <<":", " ">> \o JoinSp(leftKeys) \o <<" ", "|", " ">> \o JoinSp(rightKeys)
        \o <<"\n">>))

RECURSIVE RowsFrom(_, _, _)
\* the row lines from row r on
RowsFrom(keys, g, r) ==
    IF r >= g.rows THEN <<>>
    ELSE HandsLine(KwRow \o Decimal(r), keys, MathMin(Len(keys), r * g.cols * 2), g.cols)
         \o RowsFrom(keys, g, r + 1)

\* generateLayoutFromKeys
generateLayoutFromKeys(keys) ==
    Let(Geometry(Len(keys)), LAMBDA g :
        GeometryHeader(g) \o RowsFrom(keys, g, 0)
        \o HandsLine(KwThumb, keys, MathMin(Len(keys), g.rows * g.cols * 2), g.thumbCount))

MaxImportKeys == 3

ImportInit ==
    /\ zmkKeys = <<>>
    /\ importedText = generateLayoutFromKeys(<<>>)
    /\ imported = parseCombinedLayout(importedText)

\* a keymap whose first layer holds the keys is imported: the layout text is
\* generated from them and parsed for the preview
ImportKeys(keys) ==
    /\ zmkKeys' = keys
    /\ importedText' = generateLayoutFromKeys(keys)
    /\ imported' = parseCombinedLayout(importedText')
    /\ UNCHANGED exceptImport

\* the keymap imported next holds one more binding than the last
ImportOneMoreKey ==
    /\ Len(zmkKeys) < MaxImportKeys
    /\ \E label \in LabelPool : ImportKeys(Append(zmkKeys, label))

---------------------------------------------------------------------------
(* C28: the generated layout text parses back into the imported labels *)

\* C28: the layout text generated from a label sequence of the ZMK importer
\* parses into a layer 0 whose labels are exactly that sequence in the same
\* order, with one key slot per label.
C28_ImportKeepsLabels ==
    /\ imported.mapping.layers[1].keys = zmkKeys
    /\ Len(imported.physical.keys) = Len(zmkKeys)

---------------------------------------------------------------------------
(* Specifications *)

Init ==
    /\ LayoutInit
    /\ CallsInit
    /\ BindingsInit
    /\ ZmkInit
    /\ StoreInit
    /\ EngineInit
    /\ SessionsInit
    /\ StateInit
    /\ KeysInit
    /\ MenuInit
    /\ AppInit
    /\ PracticeInit
    /\ ImportInit

Next == TypeRowLine

Spec == Init /\ [][Next]_vars

NextDocs == TypeDocLine

SpecDocs == Init /\ [][NextDocs]_vars

NextCalls == ParseSomeText

SpecCalls == Init /\ [][NextCalls]_vars

NextBindings == AddSomeBinding

SpecBindings == Init /\ [][NextBindings]_vars

NextZmk == AddSomeFragment

SpecZmk == Init /\ [][NextZmk]_vars

NextStore == SaveSomeLayout \/ DeleteSomeLayout

SpecStore == Init /\ [][NextStore]_vars

NextEngine == LoadSomeText \/ InputSomeChar \/ Backspace \/ Reset

SpecEngine == Init /\ [][NextEngine]_vars

NextSessions == CreateSessionManager \/ StartSession \/ EndSomeSession \/ ClearHistory

SpecSessions == Init /\ [][NextSessions]_vars

NextState == SubscribeSome \/ UnsubscribeSome \/ SetSomeValue

SpecState == Init /\ [][NextState]_vars

NextKeys == PushSomeContext \/ PopContext \/ Deactivate \/ Activate \/ SomeKeyDown

SpecKeys == Init /\ [][NextKeys]_vars

NextMenu == Open \/ Close \/ SetSomeQuery \/ MoveSomeSelection \/ SelectCurrent

SpecMenu == Init /\ [][NextMenu]_vars

NextApp == NavigateSomewhere \/ ChangeSomeHash \/ HashChange \/ Escape

SpecApp == Init /\ [][NextApp]_vars

NextPractice ==
    CreateSomePracticeView \/ PressSomeKey \/ RestartSome \/ ActivateView \/ DeactivateView

SpecPractice == Init /\ [][NextPractice]_vars

NextImport == ImportOneMoreKey

SpecImport == Init /\ [][NextImport]_vars

=============================================================================
